---- MODULE Spec2Model ----
(***************************************************************************)
(* The content-addressed, two-level memoized benchmark-scoring pipeline of *)
(* the two GRPO training scripts:                                          *)
(*   "root"     src/grpo_train_coder.py                                    *)
(*   "cape_dev" src/cape_dev/grpo_train_coder.py (+ src/cape_dev/utils.py) *)
(* Python values are tagged records; texts are sequences of tokens; floats *)
(* are fixed-point tenths (2.5 is 25, 10.0 is 100, -1.0 is -10).           *)
(***************************************************************************)
EXTENDS Integers, Sequences, FiniteSets, TLC

VARIABLES
  script,                 \* which training script runs: "root" or "cape_dev"
  hard_score_percentage,  \* Args.hard_score_percentage, in percent
  service,                \* the replies the benchmark service can give
  benchmark_cache,        \* score memo: cache_key -> score result
  content_cache,          \* content store: hash -> text
  lru,                    \* network memo of call_benchmark_server_cached,
                          \* least recently used entry first
  global_step,            \* TrainerState.global_step
  calls,                  \* scoring / reward calls made so far
  scored,                 \* history: first score call per argument pair
                          \* since the score memo was last cleared
  benchmarked,            \* history: request bodies sent to the service
  last,                   \* the last operation and what it returned
  pending                 \* the call in progress, if it runs in several
                          \* steps: the position and result of each part

vars == <<script, hard_score_percentage, service, benchmark_cache,
          content_cache, lru, global_step, calls, scored, benchmarked, last,
          pending>>

(* ------------------------------ bounds -------------------------------- *)

\* GRPOConfig(per_device_train_batch_size=2): the largest batch of
\* completions the trainer hands to a reward function
per_device_train_batch_size == 2
\* direct score calls explored in one behaviour
MaxCalls == 3
\* reward-function calls explored in one behaviour
MaxRewardCalls == 1
\* lru_cache(maxsize=10000), scaled
maxsize == 2
\* CacheCallback(content_cache_max_size=5000), scaled
content_cache_max_size == 2
\* BenchmarkCacheCallback: state.global_step % 10, scaled period
ContentClearPeriod == 2
\* training steps explored
MaxSteps == 2

\* the longest text enumerated token by token
MaxTokens == 3

(* --------------------------- Python values ---------------------------- *)

PyNone == [t |-> "NoneType"]
PyStr(s) == [t |-> "str", s |-> s]
PyBool(b) == [t |-> "bool", b |-> b]
PyNum(n) == [t |-> "float", n |-> n]
PyList(xs) == [t |-> "list", xs |-> xs]
PyTuple(xs) == [t |-> "tuple", tup |-> xs]
PyDict(d) == [t |-> "dict", d |-> d]
\* an exception propagating out of a call
Raise(e) == [t |-> "raise", exc |-> e]

IsRaise(v) == v.t = "raise"

\* dict.get(key, default); the caller has checked that v is a dict
DictGet(v, key, default) ==
  IF key \in DOMAIN v.d THEN v.d[key] ELSE default

\* Python truthiness of the values a benchmark body can carry
Truthy(v) ==
  CASE v.t = "bool" -> v.b
    [] v.t = "float" -> v.n # 0
    [] v.t = "str" -> v.s # <<>>
    [] v.t = "list" -> v.xs # <<>>
    [] v.t = "dict" -> DOMAIN v.d # {}
    [] OTHER -> FALSE

\* str(x) of a non-string value
RECURSIVE py_str(_)
py_str(v) ==
  CASE v.t = "str" -> v.s
    [] v.t = "NoneType" -> <<"None">>
    [] v.t = "bool" -> IF v.b THEN <<"True">> ELSE <<"False">>
    [] v.t = "float" -> <<"<float>", ToString(v.n)>>
    [] v.t = "tuple" ->
         IF Len(v.tup) = 1 /\ v.tup[1].t = "str"
           THEN <<"('">> \o v.tup[1].s \o <<"',)">>
           ELSE <<"(...)">>
    [] OTHER -> <<"{...}">>

\* ensure_string(content): first element of a list, recursively; str() of
\* anything else that is not a str.  content[0] of an empty list raises.
RECURSIVE ensure_string(_)
ensure_string(content) ==
  IF content.t = "list"
    THEN IF content.xs = <<>> THEN Raise("IndexError")
                              ELSE ensure_string(content.xs[1])
    ELSE IF content.t # "str" THEN PyStr(py_str(content))
    ELSE content

\* hashlib.md5(...).hexdigest(): a digest that identifies the text
\* (collisions are not modelled)
Md5(s) == [md5 |-> s]

hash_content(content) ==
  LET content_str == ensure_string(content)
  IN IF IsRaise(content_str) THEN content_str ELSE Md5(content_str.s)

(* ------------------------- extract_python_code ------------------------ *)

\* tokens: FENCE is a run of three backquotes, NL a newline, SP a blank
Fence == "FENCE"
LangTags == {"python", "py"}
Whitespace == {"SP", "NL"}

RECURSIVE LStrip(_)
LStrip(s) ==
  IF s # <<>> /\ Head(s) \in Whitespace THEN LStrip(Tail(s)) ELSE s

RECURSIVE RStrip(_)
RStrip(s) ==
  IF s # <<>> /\ s[Len(s)] \in Whitespace
    THEN RStrip(SubSeq(s, 1, Len(s) - 1)) ELSE s

\* str.strip()
Strip(s) == RStrip(LStrip(s))

\* text.split(NL): the lines, without their newlines
RECURSIVE SplitLines(_, _)
SplitLines(s, cur) ==
  IF s = <<>> THEN <<cur>>
  ELSE IF Head(s) = "NL" THEN <<cur>> \o SplitLines(Tail(s), <<>>)
  ELSE SplitLines(Tail(s), Append(cur, Head(s)))

\* NL.join(lines)
RECURSIVE JoinLines(_)
JoinLines(ls) ==
  IF ls = <<>> THEN <<>>
  ELSE IF Len(ls) = 1 THEN ls[1]
  ELSE ls[1] \o <<"NL">> \o JoinLines(Tail(ls))

\* re.findall(FENCE (python|py)? ws* (lazy group) FENCE, text)[0]: the first
\* fence, an optional python/py tag, then lazily up to the next fence.
\* <<FALSE, <<>>>> when the pattern does not match.
FirstBlock(text) ==
  LET fences == {i \in 1..Len(text) : text[i] = Fence}
  IN IF Cardinality(fences) < 2 THEN <<FALSE, <<>>>>
     ELSE LET open == CHOOSE i \in fences : \A k \in fences : i <= k
              after == IF open < Len(text) /\ text[open + 1] \in LangTags
                         THEN open + 1 ELSE open
              close == CHOOSE j \in fences :
                         j > after /\ \A k \in fences : k > after => j <= k
          IN <<TRUE, SubSeq(text, after + 1, close - 1)>>

\* the line scan of the fallback: lines whose first non-blank token is a
\* fence toggle in_code and are skipped; other lines are kept while in_code
RECURSIVE ScanLines(_, _)
ScanLines(ls, in_code) ==
  IF ls = <<>> THEN <<>>
  ELSE LET line == Head(ls)
           st == Strip(line)
       IN IF st # <<>> /\ Head(st) = Fence
            THEN ScanLines(Tail(ls), ~in_code)
            ELSE IF in_code THEN <<line>> \o ScanLines(Tail(ls), in_code)
                 ELSE ScanLines(Tail(ls), in_code)

\* extract_python_code without the line scan
extract_python_code_no_scan(text) ==
  LET python_blocks == FirstBlock(text)
  IN IF python_blocks[1] THEN Strip(python_blocks[2]) ELSE text

extract_python_code(text) ==
  LET python_blocks == FirstBlock(text)
      code_lines == ScanLines(SplitLines(text, <<>>), FALSE)
  IN IF python_blocks[1] THEN Strip(python_blocks[2])
     ELSE IF code_lines # <<>> THEN JoinLines(code_lines)
     ELSE text

(* ------------------------- benchmark service -------------------------- *)

NotJson == [t |-> "notjson"]

\* what requests.post can do: answer with a status and a body, or throw
HttpResponse(status, raw, json) ==
  [kind |-> "response", status |-> status, raw |-> raw, json |-> json]
HttpException(msg) == [kind |-> "exception", msg |-> msg]

KernelResult(compiled, correctness) ==
  PyDict([compiled |-> compiled, correctness |-> correctness])

JsonOk ==
  PyDict([kernel_result |-> KernelResult(PyBool(TRUE), PyBool(TRUE)),
          speedup_vs_eager |-> PyNum(25)])
JsonFast ==
  PyDict([kernel_result |-> KernelResult(PyBool(TRUE), PyBool(TRUE)),
          speedup_vs_compile |-> PyNum(15), speedup_vs_eager |-> PyNum(200)])
JsonWrong ==
  PyDict([kernel_result |-> KernelResult(PyBool(TRUE), PyBool(FALSE)),
          speedup_vs_compile |-> PyNum(0), speedup_vs_eager |-> PyNum(0)])
JsonSlow ==
  PyDict([kernel_result |-> KernelResult(PyBool(TRUE), PyBool(TRUE)),
          speedup_vs_compile |-> PyNum(-5), speedup_vs_eager |-> PyNum(-5)])
JsonEmpty == PyDict([x \in {} |-> PyNone])
JsonError ==
  PyDict([error |-> PyStr(<<"CUDA error">>),
          kernel_result |-> KernelResult(PyBool(TRUE), PyBool(TRUE)),
          speedup_vs_compile |-> PyNum(15), speedup_vs_eager |-> PyNum(25)])
JsonNullKernel == PyDict([kernel_result |-> PyNone])
JsonNullFields ==
  PyDict([kernel_result |-> KernelResult(PyNone, PyNone),
          speedup_vs_compile |-> PyNone, speedup_vs_eager |-> PyNone,
          error |-> PyNone])
JsonList == PyList(<<>>)

Reply500 == HttpResponse(500, "Internal Server Error", NotJson)
Reply404 == HttpResponse(404, "{detail}", JsonEmpty)
Reply201 == HttpResponse(201, "{created}", JsonOk)
ReplyBadBody == HttpResponse(200, "<html>", NotJson)
ReplyTimeout == HttpException("timed out")

\* the service failing: an error status, a body that does not parse, or
\* no response at all
FailureReplies == {Reply500, Reply404, ReplyBadBody, ReplyTimeout}
ObjectReplies ==
  {HttpResponse(200, "{...}", j) :
     j \in {JsonOk, JsonFast, JsonWrong, JsonSlow, JsonEmpty, JsonError,
            JsonNullKernel, JsonNullFields}}
AllReplies ==
  FailureReplies \cup ObjectReplies
    \cup {Reply201, HttpResponse(200, "[]", JsonList)}

\* str(response.content)
ContentOf(reply) == PyStr(<<"b'", reply.raw, "'">>)

\* the multipart body of the request: ref_file.py and kernel_file.py
RequestBody(ref_pytorch_code, optimized_code) ==
  [sent |-> TRUE, ref_file |-> ensure_string(ref_pytorch_code).s,
   kernel_file |-> ensure_string(optimized_code).s]
NoRequest == [sent |-> FALSE]

\* call_benchmark_server parsing the body whatever the status
call_benchmark_server_ignores_status(reply) ==
  IF reply.kind = "exception"
    THEN PyDict([error |->
           PyStr(<<"Exception calling benchmark server: ", reply.msg>>)])
  ELSE IF reply.json = NotJson
    THEN PyDict([error |-> PyStr(<<"Invalid JSON response">>),
                 content |-> ContentOf(reply)])
  ELSE reply.json

\* call_benchmark_server, given what requests.post did
call_benchmark_server(reply) ==
  IF reply.kind = "exception"
    THEN PyDict([error |->
           PyStr(<<"Exception calling benchmark server: ", reply.msg>>)])
  ELSE IF reply.status # 200
    THEN PyDict([error |->
                   PyStr(<<"Server error: ", ToString(reply.status)>>),
                 content |-> ContentOf(reply)])
  ELSE IF reply.json = NotJson
    THEN PyDict([error |-> PyStr(<<"Invalid JSON response">>),
                 content |-> ContentOf(reply)])
  ELSE reply.json

(* ------------------------------ the caches ---------------------------- *)

EmptyMap == [k \in {} |-> PyNone]

\* d[key] = value
Put(d, key, value) ==
  [k \in DOMAIN d \cup {key} |-> IF k = key THEN value ELSE d[k]]

\* content_cache.get(h, "missing"): a default that is not the empty string
ContentGet_placeholder(cc, h) ==
  IF h \in DOMAIN cc THEN cc[h] ELSE PyStr(<<"missing">>)

\* content_cache.get(h, "")
ContentGet(cc, h) == IF h \in DOMAIN cc THEN cc[h] ELSE PyStr(<<>>)

LruKeys(l) == {l[i].key : i \in 1..Len(l)}
LruIndex(l, key) == CHOOSE i \in 1..Len(l) : l[i].key = key
\* a hit answered with the most recently stored value, whatever the key
LruValue_newest(l, key) == l[Len(l)].val
LruValue(l, key) == l[LruIndex(l, key)].val

\* a hit that leaves the recency order as it was
LruTouch_keeps_order(l, key) == l

\* a hit moves the entry to the most recently used end
LruTouch(l, key) ==
  LET i == LruIndex(l, key)
  IN SubSeq(l, 1, i - 1) \o SubSeq(l, i + 1, Len(l)) \o <<l[i]>>

\* a memo that stores only the results that carry no error
LruInsert_successes_only(l, key, val) ==
  IF val.t = "dict" /\ "error" \in DOMAIN val.d THEN l
  ELSE LET grown == Append(l, [key |-> key, val |-> val])
       IN IF Len(grown) > maxsize THEN Tail(grown) ELSE grown

\* a miss stores the result, dropping the least recently used entry when
\* the memo is full
LruInsert(l, key, val) ==
  LET grown == Append(l, [key |-> key, val |-> val])
  IN IF Len(grown) > maxsize THEN Tail(grown) ELSE grown

\* the three stores a scoring call reads and writes
Mem(bc, cc, l) == [benchmark_cache |-> bc, content_cache |-> cc, lru |-> l]

\* what a call did: the stores after it, what it returned (or raised), the
\* request it sent and the reply it got, if any, and where the answer came
\* from: "score_memo", "network_memo", "request", "soft", or "arguments"
\* for a call that raised on its arguments
Outcome(m, out, request, path, reply) ==
  [mem |-> m, out |-> out, request |-> request, path |-> path,
   reply |-> reply]
NoReply == [kind |-> "none"]

\* call_benchmark_server_cached(ref_pytorch_code_hash, optimized_code_hash)
call_benchmark_server_cached(m, ref_hash, code_hash) ==
  LET key == <<ref_hash, code_hash>>
      ref_pytorch_code == ContentGet(m.content_cache, ref_hash)
      optimized_code == ContentGet(m.content_cache, code_hash)
  IN IF key \in LruKeys(m.lru)
       THEN {Outcome([m EXCEPT !.lru = LruTouch(m.lru, key)],
                     LruValue(m.lru, key), NoRequest, "network_memo", NoReply)}
       ELSE {Outcome([m EXCEPT !.lru =
                        LruInsert(m.lru, key, call_benchmark_server(reply))],
                     call_benchmark_server(reply),
                     RequestBody(ref_pytorch_code, optimized_code), "request",
                     reply) :
               reply \in service}

(* --------------------- score_kernel, cape_dev script ------------------ *)

\* a gate that can fall either way whatever the percentage
UseHardScoring_coin == BOOLEAN

\* random.random() < args.hard_score_percentage, random() in [0, 1)
UseHardScoring ==
  {b \in BOOLEAN : (b => hard_score_percentage > 0)
                   /\ (~b => hard_score_percentage < 100)}

\* a soft-path result that passes for a measured one
SoftResult_flagged ==
  PyDict([compiled |-> PyBool(FALSE), correctness |-> PyBool(FALSE),
          speedup_vs_compile |-> PyNum(0), speedup_vs_eager |-> PyNum(0),
          error |-> PyNone, is_hard_score |-> PyBool(TRUE)])

\* the result score_kernel starts from and returns on the soft path
SoftResult ==
  PyDict([compiled |-> PyBool(FALSE), correctness |-> PyBool(FALSE),
          speedup_vs_compile |-> PyNum(0), speedup_vs_eager |-> PyNum(0),
          error |-> PyNone, is_hard_score |-> PyBool(FALSE)])

\* score_kernel copying the measured fields even when error is set
HardResult_keeps_fields(benchmark_result) ==
  IF benchmark_result.t # "dict" THEN Raise("AttributeError")
  ELSE LET error == DictGet(benchmark_result, "error", PyNone)
           kernel_result ==
             DictGet(benchmark_result, "kernel_result", JsonEmpty)
       IN IF kernel_result.t # "dict" THEN Raise("AttributeError")
          ELSE PyDict(
            [compiled |-> DictGet(kernel_result, "compiled", PyBool(FALSE)),
             correctness |->
               DictGet(kernel_result, "correctness", PyBool(FALSE)),
             speedup_vs_compile |->
               DictGet(benchmark_result, "speedup_vs_compile", PyNum(0)),
             speedup_vs_eager |->
               DictGet(benchmark_result, "speedup_vs_eager", PyNum(0)),
             error |-> IF error # PyNone
                         THEN DictGet(benchmark_result, "content",
                                      PyStr(py_str(error)))
                         ELSE PyNone,
             is_hard_score |-> PyBool(TRUE)])

\* the hard path of score_kernel: the result built from benchmark_result
HardResult(benchmark_result) ==
  IF benchmark_result.t # "dict" THEN Raise("AttributeError")
  ELSE LET error == DictGet(benchmark_result, "error", PyNone)
       IN IF error # PyNone
            THEN PyDict([SoftResult.d EXCEPT
                   !.error = DictGet(benchmark_result, "content",
                                     PyStr(py_str(error))),
                   !.is_hard_score = PyBool(TRUE)])
            ELSE LET kernel_result ==
                       DictGet(benchmark_result, "kernel_result", JsonEmpty)
                 IN IF kernel_result.t # "dict" THEN Raise("AttributeError")
                    ELSE PyDict(
                      [compiled |->
                         DictGet(kernel_result, "compiled", PyBool(FALSE)),
                       correctness |->
                         DictGet(kernel_result, "correctness", PyBool(FALSE)),
                       speedup_vs_compile |->
                         DictGet(benchmark_result, "speedup_vs_compile",
                                 PyNum(0)),
                       speedup_vs_eager |->
                         DictGet(benchmark_result, "speedup_vs_eager",
                                 PyNum(0)),
                       error |-> DictGet(benchmark_result, "error", PyNone),
                       is_hard_score |-> PyBool(TRUE)])

\* score_kernel going to the memoized call without filling the content store
StoreContent_skips(m, ref_code, code) == m

\* content_cache[ref_hash] = ref_code; content_cache[code_hash] = code
StoreContent(m, ref_code, code) ==
  [m EXCEPT !.content_cache =
     Put(Put(@, hash_content(ref_code), ref_code), hash_content(code), code)]

score_kernel_dev(m, extracted_code, ref_code) ==
  LET code == ensure_string(extracted_code)
      ref == ensure_string(ref_code)
      stored == StoreContent(m, ref, code)
  IN UNION {
       IF use_hard_scoring
         THEN {Outcome(c.mem, HardResult(c.out), c.request, c.path, c.reply) :
                 c \in call_benchmark_server_cached(
                         stored, hash_content(ref), hash_content(code))}
         ELSE {Outcome(stored, SoftResult, NoRequest, "soft", NoReply)} :
       use_hard_scoring \in UseHardScoring}

\* get_cached_score returning the result without storing it
Memoize_forgets(o, cache_key) == o

\* benchmark_cache[cache_key] = result, unless score_kernel raised
Memoize(o, cache_key) ==
  IF IsRaise(o.out) THEN o
  ELSE [o EXCEPT !.mem.benchmark_cache = Put(@, cache_key, o.out)]

get_cached_score_dev(m, response, ref_code) ==
  LET r == ensure_string(response)
      f == ensure_string(ref_code)
  IN IF IsRaise(r) THEN {Outcome(m, r, NoRequest, "arguments", NoReply)}
     ELSE IF IsRaise(f) THEN {Outcome(m, f, NoRequest, "arguments", NoReply)}
     ELSE LET extracted_code == PyStr(extract_python_code(r.s))
              cache_key == <<hash_content(extracted_code), hash_content(f)>>
          IN IF cache_key \in DOMAIN m.benchmark_cache
               THEN {Outcome(m, m.benchmark_cache[cache_key], NoRequest,
                             "score_memo", NoReply)}
               ELSE {Memoize(o, cache_key) :
                       o \in score_kernel_dev(m, extracted_code, f)}

(* ----------------------- score_kernel, root script -------------------- *)

\* the result score_kernel builds from benchmark_result
RootResult(benchmark_result) ==
  IF benchmark_result.t # "dict" THEN Raise("AttributeError")
  ELSE LET error == DictGet(benchmark_result, "error", PyNone)
       IN IF error # PyNone
            THEN PyDict([compiled |-> PyBool(FALSE),
                         correctness |-> PyBool(FALSE),
                         speedup_vs_compile |-> PyNum(0),
                         speedup_vs_eager |-> PyNum(0),
                         error |-> DictGet(benchmark_result, "content",
                                           PyStr(py_str(error)))])
            ELSE LET kernel_result ==
                       DictGet(benchmark_result, "kernel_result", JsonEmpty)
                 IN IF kernel_result.t # "dict" THEN Raise("AttributeError")
                    ELSE PyDict(
                      [compiled |->
                         DictGet(kernel_result, "compiled", PyBool(FALSE)),
                       correctness |->
                         DictGet(kernel_result, "correctness", PyBool(FALSE)),
                       speedup_vs_compile |->
                         DictGet(benchmark_result, "speedup_vs_compile",
                                 PyNum(0)),
                       speedup_vs_eager |->
                         DictGet(benchmark_result, "speedup_vs_eager",
                                 PyNum(0)),
                       error |-> DictGet(benchmark_result, "error", PyNone)])

\* score_kernel handing the raw output, not the extracted code, to the
\* memoized call
score_kernel_root_raw(m, output, ref_code) ==
  LET out == ensure_string(output)
      ref == ensure_string(ref_code)
      stored == StoreContent(m, ref, out)
  IN {Outcome(c.mem, RootResult(c.out), c.request, c.path, c.reply) :
        c \in call_benchmark_server_cached(
                stored, hash_content(ref), hash_content(out))}

score_kernel_root(m, output, ref_code) ==
  LET out == ensure_string(output)
      ref == ensure_string(ref_code)
      extracted_code == PyStr(extract_python_code(out.s))
      stored == StoreContent(m, ref, extracted_code)
  IN {Outcome(c.mem, RootResult(c.out), c.request, c.path, c.reply) :
        c \in call_benchmark_server_cached(
                stored, hash_content(ref), hash_content(extracted_code))}

get_cached_score_root(m, response, ref_code) ==
  LET r == ensure_string(response)
      f == ensure_string(ref_code)
  IN IF IsRaise(r) THEN {Outcome(m, r, NoRequest, "arguments", NoReply)}
     ELSE IF IsRaise(f) THEN {Outcome(m, f, NoRequest, "arguments", NoReply)}
     ELSE LET cache_key == <<hash_content(r), hash_content(f)>>
          IN IF cache_key \in DOMAIN m.benchmark_cache
               THEN {Outcome(m, m.benchmark_cache[cache_key], NoRequest,
                             "score_memo", NoReply)}
               ELSE {Memoize(o, cache_key) : o \in score_kernel_root(m, r, f)}

\* get_cached_score refreshing the network memo's recency on a score-memo
\* hit
get_cached_score_touching(m, response, ref_code) ==
  {IF o.path = "score_memo"
        /\ <<hash_content(ref_code),
             hash_content(PyStr(extract_python_code(
                                  ensure_string(response).s)))>>
             \in LruKeys(o.mem.lru)
     THEN [o EXCEPT !.mem.lru =
             LruTouch(@, <<hash_content(ref_code),
                           hash_content(PyStr(extract_python_code(
                                          ensure_string(response).s)))>>)]
     ELSE o :
     o \in IF script = "root"
             THEN get_cached_score_root(m, response, ref_code)
             ELSE get_cached_score_dev(m, response, ref_code)}

\* get_cached_score handing out a memoized result once: a score-memo hit
\* removes the entry
get_cached_score_consuming(m, response, ref_code) ==
  {IF o.path = "score_memo"
     THEN [o EXCEPT !.mem.benchmark_cache =
             [k \in {c \in DOMAIN @ : @[c] # o.out} |-> @[k]]]
     ELSE o :
     o \in IF script = "root"
             THEN get_cached_score_root(m, response, ref_code)
             ELSE get_cached_score_dev(m, response, ref_code)}

\* the get_cached_score of the running script
get_cached_score(m, response, ref_code) ==
  IF script = "root" THEN get_cached_score_root(m, response, ref_code)
                     ELSE get_cached_score_dev(m, response, ref_code)

(* --------------------------- reward functions ------------------------- *)

\* reward_speedup without the cap at 10.0
SpeedupReward_uncapped(result) ==
  LET speedup == result.d.speedup_vs_eager
  IN IF speedup.t # "float" THEN Raise("TypeError")
     ELSE IF speedup.n <= 0 THEN PyNum(-10)
     ELSE speedup

\* result["speedup_vs_eager"] mapped to a reward; comparing a value that
\* is not a number with 0 raises
SpeedupReward(result) ==
  LET speedup == result.d.speedup_vs_eager
  IN IF speedup.t # "float" THEN Raise("TypeError")
     ELSE IF speedup.n <= 0 THEN PyNum(-10)
     ELSE IF speedup.n < 100 THEN speedup ELSE PyNum(100)

\* reward_compilation and reward_correctness reading each other's field
RewardValue_swapped(kind, result) ==
  CASE kind = "reward_compilation" ->
         IF Truthy(result.d.correctness) THEN PyNum(10) ELSE PyNum(-10)
    [] kind = "reward_correctness" ->
         IF Truthy(result.d.compiled) THEN PyNum(10) ELSE PyNum(-10)
    [] kind = "reward_speedup" -> SpeedupReward(result)

\* the value a reward function appends for a score result
RewardValue(kind, result) ==
  CASE kind = "reward_compilation" ->
         IF Truthy(result.d.compiled) THEN PyNum(10) ELSE PyNum(-10)
    [] kind = "reward_correctness" ->
         IF Truthy(result.d.correctness) THEN PyNum(10) ELSE PyNum(-10)
    [] kind = "reward_speedup" -> SpeedupReward(result)

\* the cape_dev loop body answering an exception with -1.0
ItemReward_dev_penalises(kind, out) ==
  IF IsRaise(out) THEN PyNum(-10)
  ELSE IF Truthy(DictGet(out, "is_hard_score", PyBool(FALSE)))
    THEN IF IsRaise(RewardValue(kind, out)) THEN PyNum(-10)
         ELSE RewardValue(kind, out)
    ELSE PyNone

\* the body of the try/except of one loop iteration, cape_dev script:
\* None unless the result is hard-scored, None on any exception
ItemReward_dev(kind, out) ==
  IF IsRaise(out) THEN PyNone
  ELSE IF Truthy(DictGet(out, "is_hard_score", PyBool(FALSE)))
    THEN IF IsRaise(RewardValue(kind, out)) THEN PyNone
         ELSE RewardValue(kind, out)
    ELSE PyNone

\* the body of the try/except of one loop iteration, root script:
\* -1.0 on any exception
ItemReward_root(kind, out) ==
  IF IsRaise(out) THEN PyNum(-10)
  ELSE IF IsRaise(RewardValue(kind, out)) THEN PyNum(-10)
  ELSE RewardValue(kind, out)

ItemReward(kind, out) ==
  IF script = "root" THEN ItemReward_root(kind, out)
                     ELSE ItemReward_dev(kind, out)

\* one entry of the trace of a batch: what was scored and what came back
Item(response, ref, o, reward) ==
  [response |-> response, ref |-> ref, out |-> o.out,
   request |-> o.request, path |-> o.path, reply |-> o.reply,
   reward |-> reward]

\* the loop appending nothing for an item whose scoring raised
RECURSIVE RunBatch_drops(_, _, _, _)
RunBatch_drops(kind, m, responses, ref_codes) ==
  IF responses = <<>> \/ ref_codes = <<>>
    THEN {[mem |-> m, items |-> <<>>]}
    ELSE UNION {
      {[mem |-> rest.mem,
        items |-> (IF IsRaise(o.out) THEN <<>>
                   ELSE <<Item(Head(responses), Head(ref_codes), o,
                               ItemReward(kind, o.out))>>) \o rest.items] :
         rest \in RunBatch_drops(kind, o.mem, Tail(responses),
                                 Tail(ref_codes))} :
      o \in get_cached_score(m, Head(responses), Head(ref_codes))}

\* for response, ref in zip(responses, ref_codes): ... rewards.append(...)
RECURSIVE RunBatch(_, _, _, _)
RunBatch(kind, m, responses, ref_codes) ==
  IF responses = <<>> \/ ref_codes = <<>>
    THEN {[mem |-> m, items |-> <<>>]}
    ELSE UNION {
      {[mem |-> rest.mem,
        items |-> <<Item(Head(responses), Head(ref_codes), o,
                         ItemReward(kind, o.out))>> \o rest.items] :
         rest \in RunBatch(kind, o.mem, Tail(responses), Tail(ref_codes))} :
      o \in get_cached_score(m, Head(responses), Head(ref_codes))}

\* a completion is a list of turns; completion[0]['content']
Turn(content) == [role |-> "assistant", content |-> content]
WellFormed(completion) == completion # <<>>

\* ref_codes: the trainer passes the dataset column by the keyword
\* ref_code, which binds the parameter ref_code and never lands in kwargs
RefCodes(ref_code, kwargs, n) ==
  IF ref_code = PyNone /\ "ref_code" \in DOMAIN kwargs
    THEN kwargs["ref_code"].xs
    ELSE [i \in 1..n |-> ref_code]

\* the keyword arguments left in **kwargs by a call from the trainer
TrainerKwargs == [k \in {"prompts"} |-> PyNone]

(* ------------------------------ LLM judge ----------------------------- *)

\* what litellm.acompletion and model_validate_json can do for one item
JudgeScores(correctness, code_quality) ==
  [kind |-> "scores", correctness |-> PyNum(correctness),
   code_quality |-> PyNum(code_quality)]
JudgeFailure == [kind |-> "exception"]
\* content that model_validate_json rejects
JudgeUnparsable == [kind |-> "unparsable"]
JudgeReplies == {JudgeScores(9, 4), JudgeScores(10, 10), JudgeFailure}
\* LLMKernelEvaluation declares both scores as plain floats: content with
\* scores outside [0, 1] validates
AllJudgeReplies ==
  JudgeReplies \cup {JudgeScores(4, 9), JudgeScores(15, 20), JudgeUnparsable}

evaluate_with_llm(extracted_code, ref_code, judge) ==
  IF IsRaise(ensure_string(ref_code)) THEN ensure_string(ref_code)
  ELSE IF IsRaise(ensure_string(extracted_code))
    THEN ensure_string(extracted_code)
  ELSE IF judge.kind = "scores"
    THEN PyDict([analysis |-> PyStr(<<"analysis">>),
                 correctness |-> judge.correctness,
                 code_quality |-> judge.code_quality])
    ELSE PyDict([analysis |-> PyStr(<<"Error in evaluation">>),
                 correctness |-> PyNone, code_quality |-> PyNone])

\* get_llm_eval combining the two scores by their maximum
get_llm_eval_max(response, ref, judge) ==
  LET result == evaluate_with_llm(response, ref, judge)
  IN IF IsRaise(result) THEN PyNone
     ELSE LET correctness_score == result.d.correctness
              quality_score == result.d.code_quality
          IN IF correctness_score.t # "float" \/ quality_score.t # "float"
               THEN PyNone
               ELSE IF quality_score.n > correctness_score.n
                      THEN quality_score ELSE correctness_score

\* min(correctness_score, quality_score); None on any exception
get_llm_eval(response, ref, judge) ==
  LET result == evaluate_with_llm(response, ref, judge)
  IN IF IsRaise(result) THEN PyNone
     ELSE LET correctness_score == result.d.correctness
              quality_score == result.d.code_quality
          IN IF correctness_score.t # "float" \/ quality_score.t # "float"
               THEN PyNone
               ELSE IF quality_score.n < correctness_score.n
                      THEN quality_score ELSE correctness_score

(* -------------------------------- inputs ------------------------------ *)

RefB == <<"code_B">>
RefD == <<"code_D">>

\* two raw responses that extract to code_A, and one bare code_C
RespA1 ==
  <<"explanation", "SP", Fence, "python", "NL", "code_A", "NL", Fence>>
RespA2 == <<Fence, "NL", "code_A", "NL", Fence, "SP", "done">>
RespC == <<"code_C">>

Responses == {PyStr(RespA1), PyStr(RespA2), PyStr(RespC)}
Refs == {PyStr(RefB), PyStr(RefD)}

\* completions as the trainer builds them, and one without any turn
Completions == {<<Turn(r)>> : r \in Responses} \cup {<<>>}
BatchCompletions == {<<Turn(PyStr(RespA1))>>, <<Turn(PyStr(RespC))>>, <<>>}

SeqsOf(S, n) == [1..n -> S]
Batches == UNION {SeqsOf(BatchCompletions, n) : n \in 1..per_device_train_batch_size}
\* the ref_code column of a batch of n examples
RefColumns(n) == {PyList(refs) : refs \in SeqsOf(Refs, n)}

Scripts == {"root", "cape_dev"}
HardScorePercentages == {0, 50, 100}
Shapers(sc) ==
  IF sc = "root"
    THEN {"reward_compilation", "reward_correctness", "reward_speedup"}
    ELSE {"reward_compilation", "reward_correctness", "reward_speedup",
          "reward_llm_scoring"}

\* texts for extract_python_code: every text of up to MaxTokens tokens, and
\* texts built as prose, opening fence, tag, body, closing fence, trailer
Tokens == {Fence, "NL", "SP", "python", "cuda", "code_A"}
ShortTexts == UNION {SeqsOf(Tokens, n) : n \in 0..MaxTokens}
FencedTexts ==
  {prefix \o open \o sep \o body \o close \o suffix :
     prefix \in {<<>>, <<"see", "SP">>, <<"see", "NL">>},
     open \in {<<>>, <<Fence>>, <<Fence, "python">>, <<Fence, "py">>,
               <<Fence, "cuda">>},
     sep \in {<<>>, <<"NL">>},
     body \in {<<"code_A">>, <<"code_A", "NL", "SP", "code_B">>},
     close \in {<<>>, <<"NL", Fence>>, <<"NL", "SP", Fence>>},
     suffix \in {<<>>, <<"SP", "done">>,
                 <<"NL", Fence, "NL", "code_C", "NL", Fence>>}}
Texts == ShortTexts \cup FencedTexts

\* values for hash_content: a string, the string wrapped in lists and in a
\* tuple, an empty list, and values that are neither strings nor sequences
HashInputs ==
  {PyStr(RefB), PyList(<<PyStr(RefB)>>), PyList(<<PyList(<<PyStr(RefB)>>)>>),
   PyList(<<PyStr(RefB), PyStr(RefD)>>), PyTuple(<<PyStr(RefB)>>),
   PyList(<<>>), PyNone, PyNum(15), PyBool(TRUE)}

(* ------------------------------- actions ------------------------------ *)

NotScored == [n |-> 0]
\* no call in progress
NoPending == [op |-> "none"]

\* the state after module import, with a service able to give replies
InitWith(replies) ==
  /\ script \in Scripts
  /\ hard_score_percentage \in
       IF script = "root" THEN {100} ELSE HardScorePercentages
  /\ service = replies
  /\ benchmark_cache = EmptyMap
  /\ content_cache = EmptyMap
  /\ lru = <<>>
  /\ global_step = 0
  /\ calls = 0
  /\ scored = EmptyMap
  /\ benchmarked = {}
  /\ last = [op |-> "init"]
  /\ pending = NoPending

Unchanged_config == UNCHANGED <<script, hard_score_percentage, service>>

\* the request a hard-scored call with these arguments carries
RequestFor(response, ref_code) ==
  RequestBody(ref_code, PyStr(extract_python_code(ensure_string(response).s)))

\* the network-memo key of a call with these arguments
LruKeyFor(response, ref_code) ==
  <<hash_content(ref_code),
    hash_content(PyStr(extract_python_code(ensure_string(response).s)))>>

\* the score-memo key of a call with these arguments: the root script
\* hashes the response, the cape_dev script the code extracted from it
ScoreKeyFor(response, ref_code) ==
  IF script = "root"
    THEN <<hash_content(response), hash_content(ref_code)>>
    ELSE <<hash_content(PyStr(extract_python_code(ensure_string(response).s))),
           hash_content(ref_code)>>

\* a direct call get_cached_score(response, ref_code)
GetCachedScore(response, ref_code) ==
  /\ calls < MaxCalls
  /\ \E o \in get_cached_score(Mem(benchmark_cache, content_cache, lru),
                               response, ref_code) :
       LET args == <<response, ref_code>>
           prior == IF args \in DOMAIN scored THEN scored[args] ELSE NotScored
           sent == IF o.request.sent THEN 1 ELSE 0
       IN /\ benchmark_cache' = o.mem.benchmark_cache
          /\ content_cache' = o.mem.content_cache
          /\ lru' = o.mem.lru
          /\ scored' =
               Put(scored, args,
                   IF prior.n = 0
                     THEN [n |-> 1, out |-> o.out, requests |-> sent]
                     ELSE [n |-> 2, out |-> prior.out,
                           requests |-> prior.requests + sent])
          /\ benchmarked' =
               IF o.request.sent THEN benchmarked \cup {o.request}
                                 ELSE benchmarked
          /\ last' = [op |-> "get_cached_score", response |-> response,
                      ref_code |-> ref_code, out |-> o.out,
                      request |-> o.request, path |-> o.path,
                      prior |-> prior,
                      was_benchmarked |->
                        RequestFor(response, ref_code) \in benchmarked,
                      lru_had |-> LruKeyFor(response, ref_code)
                                    \in LruKeys(lru),
                      after_step_end |-> last.op = "on_step_end",
                      pre_clear |->
                        IF last.op = "on_step_end"
                             /\ ScoreKeyFor(response, ref_code)
                                   \in DOMAIN last.cleared
                          THEN [had |-> TRUE,
                                out |-> last.cleared[
                                          ScoreKeyFor(response, ref_code)]]
                          ELSE [had |-> FALSE]]
  /\ calls' = calls + 1
  /\ UNCHANGED <<global_step, pending>>
  /\ Unchanged_config

\* reward_compilation, reward_correctness or reward_speedup called by the
\* trainer with a batch of completions and the ref_code column
RewardCall(kind, completions, ref_code) ==
  /\ calls < MaxRewardCalls
  /\ kind \in Shapers(script) \ {"reward_llm_scoring"}
  /\ IF \E i \in 1..Len(completions) : ~WellFormed(completions[i])
       THEN /\ last' = [op |-> kind, completions |-> completions,
                        ref_code |-> ref_code, raised |-> TRUE]
            /\ UNCHANGED <<benchmark_cache, content_cache, lru, scored,
                           benchmarked>>
       ELSE LET responses ==
                  [i \in 1..Len(completions) |-> completions[i][1].content]
                ref_codes ==
                  RefCodes(ref_code, TrainerKwargs, Len(responses))
            IN \E run \in RunBatch(kind,
                            Mem(benchmark_cache, content_cache, lru),
                            responses, ref_codes) :
                 LET clears == script = "root" /\ kind = "reward_speedup"
                 IN /\ benchmark_cache' =
                         IF clears THEN EmptyMap
                                   ELSE run.mem.benchmark_cache
                    /\ content_cache' = run.mem.content_cache
                    /\ lru' = run.mem.lru
                    /\ scored' = IF clears THEN EmptyMap ELSE scored
                    /\ benchmarked' = benchmarked \cup
                         {run.items[i].request : i \in
                            {j \in 1..Len(run.items) :
                               run.items[j].request.sent}}
                    /\ last' = [op |-> kind, completions |-> completions,
                                ref_code |-> ref_code, raised |-> FALSE,
                                items |-> run.items,
                                rewards |-> [i \in 1..Len(run.items) |->
                                               run.items[i].reward]]
  /\ calls' = calls + 1
  /\ UNCHANGED <<global_step, pending>>
  /\ Unchanged_config

\* reward_llm_scoring: one judge call per item, gathered in input order
RewardLlmScoring(completions, ref_code, judges) ==
  /\ calls < MaxRewardCalls
  /\ "reward_llm_scoring" \in Shapers(script)
  /\ IF \E i \in 1..Len(completions) : ~WellFormed(completions[i])
       THEN last' = [op |-> "reward_llm_scoring",
                     completions |-> completions, ref_code |-> ref_code,
                     raised |-> TRUE]
       ELSE LET responses ==
                  [i \in 1..Len(completions) |-> completions[i][1].content]
                ref_codes ==
                  RefCodes(ref_code, TrainerKwargs, Len(responses))
                rewards ==
                  [i \in 1..Len(responses) |->
                     get_llm_eval(responses[i], ref_codes[i], judges[i])]
            IN last' = [op |-> "reward_llm_scoring",
                        completions |-> completions, ref_code |-> ref_code,
                        raised |-> FALSE,
                        items |-> [i \in 1..Len(responses) |->
                                     [response |-> responses[i],
                                      ref |-> ref_codes[i],
                                      judge |-> judges[i],
                                      reward |-> rewards[i]]],
                        rewards |-> rewards]
  /\ calls' = calls + 1
  /\ UNCHANGED <<benchmark_cache, content_cache, lru, scored, benchmarked,
                 global_step, pending>>
  /\ Unchanged_config

\* the awaitables passed to asyncio.gather have not all finished
NotDone == [t |-> "not_done"]

\* asyncio.gather: the results in completion order
gather_as_completed(results, order) ==
  [k \in 1..Len(order) |-> results[order[k]]]

\* asyncio.gather: the results in the order of the awaitables
gather(results, order) == results

\* reward_llm_scoring up to run_until_complete: one get_llm_eval task per
\* item, handed to asyncio.gather
LaunchJudgeCalls(completions, ref_code) ==
  /\ calls < MaxRewardCalls
  /\ "reward_llm_scoring" \in Shapers(script)
  /\ pending = NoPending
  /\ IF \E i \in 1..Len(completions) : ~WellFormed(completions[i])
       THEN /\ last' = [op |-> "reward_llm_scoring",
                        completions |-> completions, ref_code |-> ref_code,
                        raised |-> TRUE]
            /\ UNCHANGED pending
       ELSE LET responses ==
                  [i \in 1..Len(completions) |-> completions[i][1].content]
                ref_codes ==
                  RefCodes(ref_code, TrainerKwargs, Len(responses))
            IN /\ pending' = [op |-> "reward_llm_scoring",
                              completions |-> completions,
                              ref_code |-> ref_code,
                              responses |-> responses,
                              ref_codes |-> ref_codes,
                              judges |-> [i \in 1..Len(responses) |-> NotDone],
                              results |-> [i \in 1..Len(responses) |-> NotDone],
                              order |-> <<>>]
               /\ last' = [op |-> "in_progress"]
  /\ calls' = calls + 1
  /\ UNCHANGED <<benchmark_cache, content_cache, lru, scored, benchmarked,
                 global_step>>
  /\ Unchanged_config

\* the judge call of task i completes and the task finishes with its reward
JudgeCallCompletes(i, judge) ==
  /\ pending.op = "reward_llm_scoring"
  /\ i \in 1..Len(pending.results)
  /\ pending.results[i] = NotDone
  /\ pending' =
       [pending EXCEPT
          !.judges[i] = judge,
          !.results[i] =
            get_llm_eval(pending.responses[i], pending.ref_codes[i], judge),
          !.order = Append(@, i)]
  /\ UNCHANGED <<benchmark_cache, content_cache, lru, scored, benchmarked,
                 global_step, calls, last>>
  /\ Unchanged_config

\* run_until_complete returns once every task has finished
GatherReturns ==
  /\ pending.op = "reward_llm_scoring"
  /\ \A i \in 1..Len(pending.results) : pending.results[i] # NotDone
  /\ last' = [op |-> "reward_llm_scoring",
              completions |-> pending.completions,
              ref_code |-> pending.ref_code,
              raised |-> FALSE,
              items |-> [i \in 1..Len(pending.results) |->
                           [response |-> pending.responses[i],
                            ref |-> pending.ref_codes[i],
                            judge |-> pending.judges[i],
                            reward |-> pending.results[i]]],
              rewards |-> gather(pending.results, pending.order),
              order |-> pending.order]
  /\ pending' = NoPending
  /\ UNCHANGED <<benchmark_cache, content_cache, lru, scored, benchmarked,
                 global_step, calls>>
  /\ Unchanged_config

\* on_step_end purging the content store and network memo at every step
ContentCacheAlwaysCleared(cc) == TRUE

\* on_step_end purging a store that has reached the ceiling
ContentCacheAtCeiling(cc) == Cardinality(DOMAIN cc) >= content_cache_max_size

\* len(content_cache) > self.content_cache_max_size
ContentCacheTooLarge(cc) == Cardinality(DOMAIN cc) > content_cache_max_size

\* the trainer finishes a step and runs the callback's on_step_end
OnStepEnd ==
  /\ global_step < MaxSteps
  /\ global_step' = global_step + 1
  /\ benchmark_cache' = EmptyMap
  /\ scored' = EmptyMap
  /\ IF script = "root"
       THEN /\ content_cache' =
                 IF global_step' % ContentClearPeriod = 0
                   THEN EmptyMap ELSE content_cache
            /\ lru' = lru
       ELSE IF ContentCacheTooLarge(content_cache)
         THEN content_cache' = EmptyMap /\ lru' = <<>>
         ELSE content_cache' = content_cache /\ lru' = lru
  /\ last' = [op |-> "on_step_end", lru_before |-> lru,
              store_size |-> Cardinality(DOMAIN content_cache),
              cleared |-> benchmark_cache]
  /\ UNCHANGED <<calls, benchmarked, pending>>
  /\ Unchanged_config

\* a direct call call_benchmark_server(ref_pytorch_code, optimized_code):
\* both arguments go through ensure_string before the try block, then the
\* request is posted and the reply classified
CallBenchmarkServer(ref_pytorch_code, optimized_code) ==
  /\ calls < MaxRewardCalls
  /\ LET ref == ensure_string(ref_pytorch_code)
         code == ensure_string(optimized_code)
     IN IF IsRaise(ref) \/ IsRaise(code)
          THEN /\ last' = [op |-> "call_benchmark_server",
                           ref_pytorch_code |-> ref_pytorch_code,
                           optimized_code |-> optimized_code,
                           out |-> IF IsRaise(ref) THEN ref ELSE code,
                           request |-> NoRequest, reply |-> NoReply]
               /\ UNCHANGED benchmarked
          ELSE \E reply \in service :
                 /\ last' = [op |-> "call_benchmark_server",
                             ref_pytorch_code |-> ref_pytorch_code,
                             optimized_code |-> optimized_code,
                             out |-> call_benchmark_server(reply),
                             request |-> RequestBody(ref, code),
                             reply |-> reply]
                 /\ benchmarked' = benchmarked \cup {RequestBody(ref, code)}
  /\ calls' = calls + 1
  /\ UNCHANGED <<benchmark_cache, content_cache, lru, scored, global_step,
                 pending>>
  /\ Unchanged_config

\* extract_python_code(text) called on its own, once in a behaviour: the
\* function reads and writes no state
ExtractPythonCode(text) ==
  /\ calls = 0
  /\ calls' = 1
  /\ last' = [op |-> "extract_python_code", text |-> text,
              out |-> extract_python_code(text)]
  /\ UNCHANGED <<benchmark_cache, content_cache, lru, scored, benchmarked,
                 global_step, pending>>
  /\ Unchanged_config

\* hash_content(content) called on its own, once in a behaviour
HashContent(content) ==
  /\ calls = 0
  /\ calls' = 1
  /\ last' = [op |-> "hash_content", content |-> content,
              out |-> hash_content(content)]
  /\ UNCHANGED <<benchmark_cache, content_cache, lru, scored, benchmarked,
                 global_step, pending>>
  /\ Unchanged_config

\* the hashes handed to call_benchmark_server_cached directly: of a
\* reference, of a piece of code, and of a text that is never stored
CachedCallHashes ==
  {Md5(RefB), Md5(<<"code_A">>)} \cup {Md5(<<"never_stored">>)}

\* a direct call call_benchmark_server_cached(ref_hash, code_hash)
CallBenchmarkServerCached(ref_pytorch_code_hash, optimized_code_hash) ==
  /\ calls < MaxCalls
  /\ \E o \in call_benchmark_server_cached(
                Mem(benchmark_cache, content_cache, lru),
                ref_pytorch_code_hash, optimized_code_hash) :
       /\ benchmark_cache' = o.mem.benchmark_cache
       /\ content_cache' = o.mem.content_cache
       /\ lru' = o.mem.lru
       /\ benchmarked' =
            IF o.request.sent THEN benchmarked \cup {o.request}
                              ELSE benchmarked
       /\ last' = [op |-> "call_benchmark_server_cached",
                   ref_pytorch_code_hash |-> ref_pytorch_code_hash,
                   optimized_code_hash |-> optimized_code_hash,
                   out |-> o.out, request |-> o.request, path |-> o.path,
                   content_before |-> content_cache]
  /\ calls' = calls + 1
  /\ UNCHANGED <<scored, global_step, pending>>
  /\ Unchanged_config

\* score_kernel of the running script, as get_cached_score calls it
score_kernel(m, response, ref_code) ==
  IF script = "root"
    THEN score_kernel_root(m, response, ref_code)
    ELSE score_kernel_dev(
           m, PyStr(extract_python_code(ensure_string(response).s)), ref_code)

\* two calls get_cached_score(response, ref_code) begin; each runs in three
\* steps: the membership test on benchmark_cache, score_kernel, the store
\* into benchmark_cache
StartScoreCalls(response, ref_code) ==
  /\ calls < MaxCalls
  /\ pending = NoPending
  /\ pending' = [op |-> "get_cached_score", response |-> response,
                 ref_code |-> ref_code,
                 start |-> Mem(benchmark_cache, content_cache, lru),
                 pc |-> <<"check", "check">>,
                 result |-> <<NotDone, NotDone>>,
                 misses |-> 0, requests |-> 0]
  /\ last' = [op |-> "in_progress"]
  /\ calls' = calls + 1
  /\ UNCHANGED <<benchmark_cache, content_cache, lru, scored, benchmarked,
                 global_step>>
  /\ Unchanged_config

\* if cache_key in benchmark_cache: return benchmark_cache[cache_key]
CheckMemo(t) ==
  /\ pending.op = "get_cached_score"
  /\ pending.pc[t] = "check"
  /\ LET cache_key == ScoreKeyFor(pending.response, pending.ref_code)
     IN pending' =
          IF cache_key \in DOMAIN benchmark_cache
            THEN [pending EXCEPT !.pc[t] = "done",
                                 !.result[t] = benchmark_cache[cache_key]]
            ELSE [pending EXCEPT !.pc[t] = "compute", !.misses = @ + 1]
  /\ UNCHANGED <<benchmark_cache, content_cache, lru, scored, benchmarked,
                 global_step, calls, last>>
  /\ Unchanged_config

\* result = score_kernel(...); an exception ends the call
Compute(t) ==
  /\ pending.op = "get_cached_score"
  /\ pending.pc[t] = "compute"
  /\ \E o \in score_kernel(Mem(benchmark_cache, content_cache, lru),
                           pending.response, pending.ref_code) :
       /\ benchmark_cache' = o.mem.benchmark_cache
       /\ content_cache' = o.mem.content_cache
       /\ lru' = o.mem.lru
       /\ benchmarked' =
            IF o.request.sent THEN benchmarked \cup {o.request}
                              ELSE benchmarked
       /\ pending' =
            [pending EXCEPT
               !.pc[t] = IF IsRaise(o.out) THEN "done" ELSE "write",
               !.result[t] = o.out,
               !.requests = IF o.request.sent THEN @ + 1 ELSE @]
  /\ UNCHANGED <<scored, global_step, calls, last>>
  /\ Unchanged_config

\* benchmark_cache[cache_key] = result; return result
WriteMemo(t) ==
  /\ pending.op = "get_cached_score"
  /\ pending.pc[t] = "write"
  /\ LET cache_key == ScoreKeyFor(pending.response, pending.ref_code)
         o == Outcome(Mem(benchmark_cache, content_cache, lru),
                      pending.result[t], NoRequest, "request", NoReply)
     IN benchmark_cache' = Memoize(o, cache_key).mem.benchmark_cache
  /\ pending' = [pending EXCEPT !.pc[t] = "done"]
  /\ UNCHANGED <<content_cache, lru, scored, benchmarked, global_step, calls,
                 last>>
  /\ Unchanged_config

\* both calls have returned
ScoreCallsReturn ==
  /\ pending.op = "get_cached_score"
  /\ pending.pc = <<"done", "done">>
  /\ last' = [op |-> "get_cached_score_twice",
              response |-> pending.response, ref_code |-> pending.ref_code,
              start |-> pending.start, results |-> pending.result,
              misses |-> pending.misses, requests |-> pending.requests]
  /\ pending' = NoPending
  /\ UNCHANGED <<benchmark_cache, content_cache, lru, scored, benchmarked,
                 global_step, calls>>
  /\ Unchanged_config

\* no shaper emptying the score memo
ClearsScoreMemo_never(kind) == FALSE

\* clear_benchmark_cache() at the end of the root script's reward_speedup
ClearsScoreMemo(kind) == script = "root" /\ kind = "reward_speedup"

\* the trainer scoring one batch: each benchmark shaper is called once on
\* the same completions and ref_code column, in any order
ShaperOnBatch(kind, completions, ref_code) ==
  /\ kind \in Shapers(script) \ {"reward_llm_scoring"}
  /\ \/ pending = NoPending
     \/ /\ pending.op = "batch"
        /\ kind \notin pending.done
        /\ completions = pending.completions
        /\ ref_code = pending.ref_code
  /\ LET so_far == IF pending = NoPending
                     THEN [op |-> "batch", completions |-> completions,
                           ref_code |-> ref_code, done |-> {}, requests |-> 0,
                           lru_start |-> lru, rewards |-> EmptyMap]
                     ELSE pending
     IN IF \E i \in 1..Len(completions) : ~WellFormed(completions[i])
          THEN /\ last' = [op |-> kind, completions |-> completions,
                           ref_code |-> ref_code, raised |-> TRUE]
               /\ pending' = [so_far EXCEPT !.done = @ \cup {kind}]
               /\ UNCHANGED <<benchmark_cache, content_cache, lru, scored,
                              benchmarked>>
          ELSE LET responses ==
                     [i \in 1..Len(completions) |->
                        completions[i][1].content]
                   ref_codes ==
                     RefCodes(ref_code, TrainerKwargs, Len(responses))
               IN \E run \in RunBatch(kind,
                               Mem(benchmark_cache, content_cache, lru),
                               responses, ref_codes) :
                    LET sent == {j \in 1..Len(run.items) :
                                   run.items[j].request.sent}
                    IN /\ benchmark_cache' =
                            IF ClearsScoreMemo(kind)
                              THEN EmptyMap ELSE run.mem.benchmark_cache
                       /\ content_cache' = run.mem.content_cache
                       /\ lru' = run.mem.lru
                       /\ scored' =
                            IF ClearsScoreMemo(kind) THEN EmptyMap ELSE scored
                       /\ benchmarked' = benchmarked \cup
                            {run.items[i].request : i \in sent}
                       /\ pending' =
                            [so_far EXCEPT
                               !.done = @ \cup {kind},
                               !.requests = @ + Cardinality(sent),
                               !.rewards =
                                 Put(@, kind,
                                     [i \in 1..Len(run.items) |->
                                        run.items[i].reward])]
                       /\ last' = [op |-> kind, completions |-> completions,
                                   ref_code |-> ref_code, raised |-> FALSE,
                                   items |-> run.items,
                                   rewards |-> [i \in 1..Len(run.items) |->
                                                  run.items[i].reward],
                                   memo_before |-> benchmark_cache]
  /\ UNCHANGED <<global_step, calls>>
  /\ Unchanged_config

(* ---------------------------- specifications -------------------------- *)

\* a service that answers with a measurement, a server error or a body
\* that is not a JSON object
FewReplies ==
  {HttpResponse(200, "{...}", JsonOk), Reply500,
   HttpResponse(200, "[]", JsonList)}

\* direct score calls and step ends
Init == InitWith(FewReplies)

\* the (response, ref_code) pairs scored: two responses carrying the same
\* code and one carrying another, against two references
ScoreArgs == (Responses \X Refs) \ {<<PyStr(RespA2), PyStr(RefD)>>}

Next ==
  \/ \E args \in ScoreArgs : GetCachedScore(args[1], args[2])
  \/ OnStepEnd

Spec == Init /\ [][Next]_vars

\* the trainer calling the reward functions on batches
InitReward == InitWith(FewReplies)

NextReward ==
  \/ \E kind \in Shapers(script), completions \in Batches :
       \E ref_code \in RefColumns(Len(completions)) :
         RewardCall(kind, completions, ref_code)
  \/ \E completions \in Batches :
       \E ref_code \in RefColumns(Len(completions)),
          judges \in SeqsOf(JudgeReplies, Len(completions)) :
         RewardLlmScoring(completions, ref_code, judges)

SpecReward == InitReward /\ [][NextReward]_vars

\* the reward functions on one-item batches, against every reply
InitShape == InitWith(AllReplies)

NextShape ==
  \/ \E kind \in Shapers(script), completions \in SeqsOf(Completions, 1) :
       \E ref_code \in RefColumns(1) :
         RewardCall(kind, completions, ref_code)

SpecShape == InitShape /\ [][NextShape]_vars

\* what a caller can hand to call_benchmark_server: a text, a one-element
\* list (a dataset column cell), an empty list, None
ClientInputs ==
  {PyStr(RefB), PyList(<<PyStr(RespC)>>), PyList(<<>>), PyNone}

\* direct calls of the benchmark client, against every reply
InitClient == InitWith(AllReplies)

NextClient ==
  \/ \E ref_pytorch_code \in ClientInputs, optimized_code \in ClientInputs :
       CallBenchmarkServer(ref_pytorch_code, optimized_code)

SpecClient == InitClient /\ [][NextClient]_vars

\* reward_llm_scoring with its judge calls completing in any order
InitJudge == InitWith(FewReplies)

NextJudge ==
  \/ \E completions \in Batches :
       \E ref_code \in RefColumns(Len(completions)) :
         LaunchJudgeCalls(completions, ref_code)
  \/ \E i \in 1..per_device_train_batch_size, judge \in AllJudgeReplies :
       JudgeCallCompletes(i, judge)
  \/ GatherReturns

SpecJudge == InitJudge /\ [][NextJudge]_vars

\* the utility functions applied to every input
InitUtil == InitWith(FewReplies)

NextUtil ==
  \/ \E text \in Texts : ExtractPythonCode(text)
  \/ \E content \in HashInputs : HashContent(content)

SpecUtil == InitUtil /\ [][NextUtil]_vars

(* ---------------- cape_dev/prepare_dataset.py, test_standardize.py ----- *)

\* the number of lines of a dataset code
MaxLines == 3

\* the first position at or after i that holds no whitespace (\s*)
RECURSIVE SkipWs(_, _)
SkipWs(s, i) ==
  IF i <= Len(s) /\ s[i] \in Whitespace THEN SkipWs(s, i + 1) ELSE i

\* \s* followed by one token of toks, from position i: the position after
\* the token, 0 when the pattern fails (or has failed before: i = 0)
Expect(s, i, toks) ==
  IF i = 0 THEN 0
  ELSE LET j == SkipWs(s, i)
       IN IF j <= Len(s) /\ s[j] \in toks THEN j + 1 ELSE 0

\* re.sub(pattern, repl, s, count) from position i, scanning left to right:
\* ends[k] is the last position of the match that starts at k, 0 when the
\* pattern does not match there; left is the number of replacements allowed
RECURSIVE ReSub(_, _, _, _, _)
ReSub(s, ends, repl, i, left) ==
  IF i > Len(s) THEN <<>>
  ELSE IF left > 0 /\ ends[i] > 0
    THEN repl \o ReSub(s, ends, repl, ends[i] + 1, left - 1)
    ELSE <<s[i]>> \o ReSub(s, ends, repl, i + 1, left)

\* tokens of the dataset codes: BS is the backspace character, the others
\* are punctuation, blanks and words
IsWordToken(t) ==
  t \notin Whitespace
            \cup {"(", ")", "[", "]", "{", "}", ",", ".", ":", "=", "BS"}

\* preprocess_sample(code, entry_point_name). The patterns of the third and
\* fourth re.sub are f-strings that are not raw: their \b is the backspace
\* character, so they match the name only next to backspaces
preprocess_sample(code, entry_point_name) ==
  LET original_class_name == entry_point_name
      defined ==
        \E i \in 1..(Len(code) - 3) :
          SubSeq(code, i, i + 3) = <<"class", "SP", original_class_name, "(">>
      \* class\s+NAME\s*\(
      class_def(s) ==
        [i \in 1..Len(s) |->
           IF s[i] = "class" /\ i < Len(s) /\ s[i + 1] \in Whitespace
             THEN LET p == Expect(s, Expect(s, i + 1, {original_class_name}),
                                  {"("})
                  IN IF p = 0 THEN 0 ELSE p - 1
             ELSE 0]
      \* super\s*\(\s*\w+\s*,\s*self\s*\)\s*\.\s*__init__\s*\(\s*
      super_init(s) ==
        [i \in 1..Len(s) |->
           IF s[i] = "super"
             THEN LET words == {s[k] : k \in {n \in 1..Len(s) :
                                                IsWordToken(s[n])}}
                      p1 == Expect(s, i + 1, {"("})
                      p2 == Expect(s, p1, words)
                      p3 == Expect(s, p2, {","})
                      p4 == Expect(s, p3, {"self"})
                      p5 == Expect(s, p4, {")"})
                      p6 == Expect(s, p5, {"."})
                      p7 == Expect(s, p6, {"__init__"})
                      p8 == Expect(s, p7, {"("})
                  IN IF p8 = 0 THEN 0 ELSE SkipWs(s, p8) - 1
             ELSE 0]
      \* \x08NAME\s*\(
      constructor_call(s) ==
        [i \in 1..Len(s) |->
           IF s[i] = "BS" /\ i < Len(s) /\ s[i + 1] = original_class_name
             THEN LET p == Expect(s, i + 2, {"("})
                  IN IF p = 0 THEN 0 ELSE p - 1
             ELSE 0]
      \* \x08NAME\x08
      reference(s) ==
        [i \in 1..Len(s) |->
           IF /\ s[i] = "BS" /\ i + 2 <= Len(s)
              /\ s[i + 1] = original_class_name /\ s[i + 2] = "BS"
             THEN i + 2 ELSE 0]
      r1 == ReSub(code, class_def(code), <<"class", "SP", "Model", "(">>, 1, 1)
      r2 == ReSub(r1, super_init(r1),
                  <<"super", "(", ")", ".", "__init__", "(">>, 1, Len(r1))
      r3 == ReSub(r2, constructor_call(r2), <<"Model", "(">>, 1, Len(r2))
      r4 == ReSub(r3, reference(r3), <<"Model">>, 1, Len(r3))
  IN IF ~defined THEN code
     ELSE IF original_class_name = "Model" THEN code
     ELSE r4

\* the line scan of standardize_get_init_inputs: the index of the first line
\* holding "return" at or after the first line holding "def get_init_inputs",
\* 0 when there is none
ReturnLineIdx(lines) ==
  LET has_def(line) ==
        \E i \in 1..(Len(line) - 2) :
          SubSeq(line, i, i + 2) = <<"def", "SP", "get_init_inputs">>
      has_return(line) == \E i \in 1..Len(line) : line[i] = "return"
      starts == {i \in 1..Len(lines) : has_def(lines[i])}
      returns == {i \in 1..Len(lines) :
                    has_return(lines[i]) /\ \E d \in starts : d <= i}
  IN IF returns = {} THEN 0
     ELSE CHOOSE i \in returns : \A k \in returns : i <= k

\* re.search of \[\s*\[\s*\]\s*,\s*\{(.*?)\}\s*\] in the stripped text after
\* the first "return" of the line: <<TRUE, group(1)>>, or <<FALSE, <<>>>>
KwargsMatch(return_line) ==
  LET r == CHOOSE i \in 1..Len(return_line) :
             /\ return_line[i] = "return"
             /\ \A k \in 1..(i - 1) : return_line[k] # "return"
      return_value ==
        Strip(SubSeq(return_line, SkipWs(return_line, r + 1),
                     Len(return_line)))
      open(i) ==
        IF return_value[i] # "[" THEN 0
        ELSE Expect(return_value,
               Expect(return_value,
                 Expect(return_value,
                   Expect(return_value, i + 1, {"["}), {"]"}), {","}), {"{"})
      closers(p) == {q \in p..Len(return_value) :
                       /\ return_value[q] = "}"
                       /\ Expect(return_value, q + 1, {"]"}) # 0}
      matches == {i \in 1..Len(return_value) :
                    open(i) # 0 /\ closers(open(i)) # {}}
  IN IF matches = {} THEN <<FALSE, <<>>>>
     ELSE LET i == CHOOSE m \in matches : \A k \in matches : m <= k
              q == CHOOSE c \in closers(open(i)) :
                     \A k \in closers(open(i)) : c <= k
          IN <<TRUE, SubSeq(return_value, open(i), q - 1)>>

\* re.finditer of ['"](\w+)['"]\s*:\s*(\d+(?:\.\d+)?|True|False): the
\* group(2) of the matches from position i on
RECURSIVE KvValues(_, _)
KvValues(s, i) ==
  IF i > Len(s) THEN <<>>
  ELSE LET p == IF s[i] \in {"'k'", "'j'"}
                  THEN Expect(s, Expect(s, i + 1, {":"}),
                              {"1", "2", "True", "False"})
                  ELSE 0
       IN IF p = 0 THEN KvValues(s, i + 1)
          ELSE <<s[p - 1]>> \o KvValues(s, p)

\* ', '.join(values)
RECURSIVE JoinValues(_)
JoinValues(values) ==
  IF Len(values) <= 1 THEN values
  ELSE <<values[1], ",", "SP">> \o JoinValues(Tail(values))

\* re.sub(r'return\s*.*', new_return, return_line)
ReplaceReturn(return_line, new_return) ==
  LET r == CHOOSE i \in 1..Len(return_line) :
             /\ return_line[i] = "return"
             /\ \A k \in 1..(i - 1) : return_line[k] # "return"
  IN SubSeq(return_line, 1, r - 1) \o new_return

\* standardize_get_init_inputs of prepare_dataset.py
standardize_get_init_inputs(code) ==
  LET lines == SplitLines(code, <<>>)
      return_line_idx == ReturnLineIdx(lines)
      return_line == lines[return_line_idx]
      kwargs_match == KwargsMatch(return_line)
      kwargs_content == Strip(kwargs_match[2])
      values == KvValues(kwargs_content, 1)
      new_return ==
        IF kwargs_content = <<>> THEN <<"return", "SP", "[", "]">>
        ELSE IF values # <<>>
          THEN <<"return", "SP", "[">> \o JoinValues(values) \o <<"]">>
          ELSE <<"return", "SP", "[", "]">>
  IN IF return_line_idx = 0 THEN code
     ELSE IF kwargs_match[1]
       THEN JoinLines([lines EXCEPT ![return_line_idx] =
                         ReplaceReturn(return_line, new_return)])
       ELSE code

\* standardize_get_init_inputs of test_standardize.py
test_standardize_get_init_inputs(code) ==
  LET lines == SplitLines(code, <<>>)
      return_line_idx == ReturnLineIdx(lines)
      return_line == lines[return_line_idx]
      kwargs_match == KwargsMatch(return_line)
      kwargs_content == kwargs_match[2]
      values == KvValues(kwargs_content, 1)
      new_return ==
        IF kwargs_match[1] /\ values # <<>>
          THEN <<"return", "SP", "[">> \o JoinValues(values) \o <<"]">>
          ELSE <<"return", "SP", "[", "4", "]">>
  IN IF return_line_idx = 0 THEN code
     ELSE JoinLines([lines EXCEPT ![return_line_idx] =
                       ReplaceReturn(return_line, new_return)])

\* the codes of up to MaxLines lines drawn from a set of lines
CodesOf(line_set) ==
  {JoinLines(ls) : ls \in UNION {SeqsOf(line_set, n) : n \in 1..MaxLines}}

\* codes for preprocess_sample: class definitions (one with extra blanks),
\* a constructor call, a type hint, a super() call, another class name, and
\* the name between backspace characters
PrepCodes ==
  CodesOf({<<"class", "SP", "Foo", "(", "Module", ")", ":">>,
           <<"class", "SP", "SP", "Foo", "SP", "(", "Module", ")", ":">>,
           <<"class", "SP", "Model", "(", "Module", ")", ":">>,
           <<"m", "=", "Foo", "(", ")">>,
           <<"x", ":", "Foo">>,
           <<"super", "(", "Foo", ",", "SP", "self", ")", ".", "__init__",
             "(", ")">>,
           <<"n", "=", "FooNet", "(", ")">>,
           <<"BS", "Foo", "(", ")", "SP", "BS", "Foo", "BS">>})
EntryPoints == {"Foo", "Model"}

\* codes for standardize_get_init_inputs: the def line, returns of the form
\* [[], {k: v, ...}] with literal values, with a name as value and with an
\* empty dict, a return of another form, and a line that is neither
StdCodes ==
  CodesOf({<<"def", "SP", "get_init_inputs", "(", ")", ":">>,
           <<"SP", "return", "SP", "[", "[", "]", ",", "SP", "{", "'k'", ":",
             "SP", "1", "}", "]">>,
           <<"SP", "return", "SP", "[", "[", "]", ",", "SP", "{", "'k'", ":",
             "SP", "2", ",", "SP", "'j'", ":", "SP", "True", "}", "]">>,
           <<"SP", "return", "SP", "[", "[", "]", ",", "SP", "{", "'k'", ":",
             "SP", "dim", "}", "]">>,
           <<"SP", "return", "SP", "[", "[", "]", ",", "SP", "{", "}", "]">>,
           <<"SP", "return", "SP", "[", "1", "]">>,
           <<"x", "=", "1">>})

\* preprocess_sample(code, entry_point_name) called on its own, once in a
\* behaviour: the function reads and writes no state
PreprocessSample(code, entry_point_name) ==
  /\ calls = 0
  /\ calls' = 1
  /\ last' = [op |-> "preprocess_sample", code |-> code,
              entry_point_name |-> entry_point_name,
              out |-> preprocess_sample(code, entry_point_name)]
  /\ UNCHANGED <<benchmark_cache, content_cache, lru, scored, benchmarked,
                 global_step, pending>>
  /\ Unchanged_config

\* prepare_dataset.py applying its standardize_get_init_inputs to a code
StandardizeGetInitInputs(code) ==
  /\ calls = 0
  /\ calls' = 1
  /\ last' = [op |-> "standardize_get_init_inputs", code |-> code,
              out |-> standardize_get_init_inputs(code)]
  /\ UNCHANGED <<benchmark_cache, content_cache, lru, scored, benchmarked,
                 global_step, pending>>
  /\ Unchanged_config

\* test_standardize.py applying its copy to a sample's code
TestStandardize(code) ==
  /\ calls = 0
  /\ calls' = 1
  /\ last' = [op |-> "test_standardize", code |-> code,
              out |-> test_standardize_get_init_inputs(code)]
  /\ UNCHANGED <<benchmark_cache, content_cache, lru, scored, benchmarked,
                 global_step, pending>>
  /\ Unchanged_config

InitPrep == InitWith(FewReplies)

NextPrep ==
  \/ \E code \in PrepCodes, entry_point_name \in EntryPoints :
       PreprocessSample(code, entry_point_name)
  \/ \E code \in StdCodes : StandardizeGetInitInputs(code)
  \/ \E code \in StdCodes : TestStandardize(code)

SpecPrep == InitPrep /\ [][NextPrep]_vars

\* score calls that fill the content store, and direct calls of the
\* memoized benchmark call with hashes that are or are not stored
\* a service that answers with a measurement or fails in each way
CachedReplies ==
  {HttpResponse(200, "{...}", JsonOk), Reply500, ReplyBadBody, ReplyTimeout}
InitCached == InitWith(CachedReplies)

NextCached ==
  \/ GetCachedScore(PyStr(RespA1), PyStr(RefB))
  \/ \E ref_hash \in CachedCallHashes \ {Md5(<<"code_A">>)},
        code_hash \in CachedCallHashes \ {Md5(RefB)} :
       CallBenchmarkServerCached(ref_hash, code_hash)

SpecCached == InitCached /\ [][NextCached]_vars

\* two interleaved score calls for the same arguments, against a service
\* that gives one reply
InitRace == \E reply \in FewReplies : InitWith({reply})

NextRace ==
  \/ \E response \in {PyStr(RespA1), PyStr(RespA2)} :
       StartScoreCalls(response, PyStr(RefB))
  \/ \E t \in 1..2 : CheckMemo(t)
  \/ \E t \in 1..2 : Compute(t)
  \/ \E t \in 1..2 : WriteMemo(t)
  \/ ScoreCallsReturn

SpecRace == InitRace /\ [][NextRace]_vars

\* one batch scored by the three benchmark shapers in any order, after
\* direct score calls that may have filled the memos
InitBatch == InitWith(FewReplies)

NextBatch ==
  \/ pending = NoPending /\ GetCachedScore(PyStr(RespC), PyStr(RefB))
  \/ \E kind \in Shapers(script), completions \in Batches :
       \E ref_code \in RefColumns(Len(completions)) :
         ShaperOnBatch(kind, completions, ref_code)

SpecBatch == InitBatch /\ [][NextBatch]_vars

\* the same, against a service that measures or answers with null fields
InitBatchNull ==
  InitWith({HttpResponse(200, "{...}", JsonOk),
            HttpResponse(200, "{...}", JsonNullFields)})

SpecBatchNull == InitBatchNull /\ [][NextBatch]_vars

(* ------------------------------- claims ------------------------------- *)

RewardOps == {"reward_compilation", "reward_correctness", "reward_speedup"}
ShaperOps == RewardOps \cup {"reward_llm_scoring"}
IsScoreCall == last.op = "get_cached_score"
ReturnedBatch == last.op \in ShaperOps /\ ~last.raised
ReturnedRewards == last.op \in RewardOps /\ ~last.raised
LastArgs == <<last.response, last.ref_code>>

\* a result obtained from the benchmark service: flagged by the cape_dev
\* script; the root script has no gate and measures every result
HardScored(out) ==
  IF script = "root" THEN TRUE ELSE out.d.is_hard_score = PyBool(TRUE)

ScoreInvariant(result) ==
  result.d.error # PyNone =>
    /\ result.d.compiled = PyBool(FALSE)
    /\ result.d.correctness = PyBool(FALSE)
    /\ result.d.speedup_vs_compile = PyNum(0)
    /\ result.d.speedup_vs_eager = PyNum(0)

\* C1 (as stated): two score calls with the same (response, ref) and no
\* clear in between issue exactly one network request in total, and the
\* second returns what the first returned.
C1_ExactlyOneRequest ==
  IsScoreCall /\ last.prior.n > 0 =>
    scored[LastArgs].requests = 1 /\ last.out = last.prior.out

\* C1 (amended): when the first score call for (response, ref) returned a
\* result, a later call with the same arguments and no clear in between
\* issues no network request and returns that same result, and the calls
\* issued at most one request in total.
C1_Memoized ==
  IsScoreCall /\ last.prior.n > 0 /\ ~IsRaise(last.prior.out) =>
    /\ ~last.request.sent
    /\ last.out = last.prior.out
    /\ scored[LastArgs].requests <= 1

C1_Witness ==
  /\ IsScoreCall
  /\ last.prior.n > 0
  /\ ~IsRaise(last.prior.out)
  /\ last.prior.requests = 1
  /\ last.out = last.prior.out

\* C2 (as stated): every reward function scores item i against reference
\* code i of the ref_code column it was passed.
C2_OwnReference ==
  ReturnedBatch =>
    \A i \in 1..Len(last.completions) :
      /\ last.items[i].response = last.completions[i][1].content
      /\ ensure_string(last.items[i].ref) = last.ref_code.xs[i]

ItemRaised(item) ==
  \/ IsRaise(item.out)
  \/ HardScored(item.out) /\ IsRaise(RewardValue(last.op, item.out))

\* C4 (as stated): in both scripts an item whose scoring raises gets the
\* abstain sentinel None, never a numeric penalty.
C4_AbstainOnError ==
  ReturnedRewards =>
    \A i \in 1..Len(last.items) :
      ItemRaised(last.items[i]) => last.items[i].reward = PyNone

\* C5 (as stated): no reward function raises to its caller, whatever the
\* batch contains.
C5_NeverRaises == last.op \in ShaperOps => ~last.raised

\* C6: whenever a reward function returns, the sequence it returns has one
\* entry per input completion, entry i is the reward of completion i, and
\* an abstention (None) is not the number 0.0.
C6_LengthAndOrder ==
  ReturnedBatch =>
    /\ Len(last.rewards) = Len(last.completions)
    /\ \A i \in 1..Len(last.completions) :
         /\ last.items[i].response = last.completions[i][1].content
         /\ last.rewards[i] = last.items[i].reward
         /\ last.rewards[i].t \in {"NoneType", "float"}
         /\ PyNone # PyNum(0)
         /\ last.op \in RewardOps =>
              last.rewards[i] = ItemReward(last.op, last.items[i].out)

C6_Witness ==
  /\ ReturnedRewards
  /\ Len(last.completions) = 2
  /\ Len(last.rewards) = 2
  /\ last.rewards[1] = PyNone
  /\ last.rewards[2].t = "float"

\* C7: for a hard-scored result reward_compilation gives 1.0 if compiled is
\* true and -1.0 otherwise, reward_correctness the same on correctness;
\* for a result that is not hard-scored both give None.
C7_BinaryRewards ==
  ReturnedRewards /\ last.op # "reward_speedup" =>
    \A i \in 1..Len(last.items) :
      LET item == last.items[i]
          field == IF last.op = "reward_compilation"
                     THEN item.out.d.compiled ELSE item.out.d.correctness
      IN ~IsRaise(item.out) =>
           item.reward =
             IF HardScored(item.out)
               THEN IF field = PyBool(TRUE) THEN PyNum(10) ELSE PyNum(-10)
               ELSE PyNone

C7_Witness ==
  /\ ReturnedRewards
  /\ last.op = "reward_correctness"
  /\ \E i \in 1..Len(last.items) :
       /\ ~IsRaise(last.items[i].out)
       /\ HardScored(last.items[i].out)
       /\ last.items[i].out.d.compiled = PyBool(TRUE)
       /\ last.items[i].out.d.correctness = PyBool(FALSE)
       /\ last.items[i].reward = PyNum(-10)

\* C8: for a hard-scored result with a numeric speedup_vs_eager,
\* reward_speedup gives -1.0 when it is <= 0 and min(10.0, speedup)
\* otherwise; for a result that is not hard-scored it gives None.
C8_SpeedupReward ==
  ReturnedRewards /\ last.op = "reward_speedup" =>
    \A i \in 1..Len(last.items) :
      LET item == last.items[i]
          speedup == item.out.d.speedup_vs_eager
      IN ~IsRaise(item.out) =>
           IF ~HardScored(item.out) THEN item.reward = PyNone
           ELSE speedup.t = "float" =>
                  item.reward =
                    IF speedup.n <= 0 THEN PyNum(-10)
                    ELSE IF speedup.n > 100 THEN PyNum(100)
                    ELSE PyNum(speedup.n)

C8_Witness ==
  /\ ReturnedRewards
  /\ last.op = "reward_speedup"
  /\ \E i \in 1..Len(last.items) :
       /\ ~IsRaise(last.items[i].out)
       /\ HardScored(last.items[i].out)
       /\ last.items[i].out.d.speedup_vs_eager = PyNum(200)
       /\ last.items[i].reward = PyNum(100)

\* C9: in every score result, and every value held by the score memo, a set
\* error comes with compiled false, correctness false and both speedups 0.
C9_ErrorMeansDefaults ==
  /\ \A k \in DOMAIN benchmark_cache : ScoreInvariant(benchmark_cache[k])
  /\ ReturnedRewards =>
       \A i \in 1..Len(last.items) :
         ~IsRaise(last.items[i].out) => ScoreInvariant(last.items[i].out)

C9_Witness ==
  /\ ReturnedRewards
  /\ \E i \in 1..Len(last.items) :
       /\ last.items[i].reply = HttpResponse(200, "{...}", JsonError)
       /\ last.items[i].out.d.error = PyStr(<<"CUDA error">>)
       /\ last.items[i].out \in {benchmark_cache[k] :
                                   k \in DOMAIN benchmark_cache}

\* C10: when the request is sent and the service fails (error status, body
\* that does not parse, transport exception) the score result has error
\* set, compiled and correctness false, both speedups 0 and is hard-scored,
\* and reward_compilation gives -1.0 for the item.
C10_FailureIsPenalised ==
  ReturnedRewards =>
    \A i \in 1..Len(last.items) :
      LET item == last.items[i]
      IN item.request.sent /\ item.reply \in FailureReplies =>
           /\ ~IsRaise(item.out)
           /\ item.out.d.error # PyNone
           /\ ScoreInvariant(item.out)
           /\ HardScored(item.out)
           /\ last.op = "reward_compilation" => item.reward = PyNum(-10)

C10_Witness ==
  /\ ReturnedRewards
  /\ last.op = "reward_compilation"
  /\ \E i \in 1..Len(last.items) :
       /\ last.items[i].reply = Reply500
       /\ last.items[i].out.d.error # PyNone
       /\ last.items[i].reward = PyNum(-10)

IsClientCall == last.op = "call_benchmark_server"

\* C11 (as stated): call_benchmark_server never raises to its caller, for
\* any pair of inputs and any behaviour of the service; every failure of
\* the service comes back as a result whose error field is set, a transport
\* exception as "Exception calling benchmark server: <message>".
C11_ClientNeverRaises ==
  IsClientCall =>
    /\ ~IsRaise(last.out)
    /\ last.reply \in FailureReplies =>
         /\ last.out.t = "dict"
         /\ "error" \in DOMAIN last.out.d
         /\ last.out.d.error.t = "str"
    /\ last.reply.kind = "exception" =>
         last.out = PyDict([error |->
           PyStr(<<"Exception calling benchmark server: ", last.reply.msg>>)])

\* C12 (as stated): call_benchmark_server classifies by status class: a
\* non-2xx status gives {error: "Server error: <status>", content: body};
\* a 2xx status with a body that does not parse gives {error: "Invalid
\* JSON response", content: body}; a 2xx status with a body that parses
\* gives the parsed body.
C12_StatusClasses ==
  IsClientCall /\ last.reply.kind = "response" =>
    LET reply == last.reply
        ok == reply.status \in 200..299
    IN last.out =
         IF ~ok
           THEN PyDict([error |->
                          PyStr(<<"Server error: ", ToString(reply.status)>>),
                        content |-> ContentOf(reply)])
         ELSE IF reply.json = NotJson
           THEN PyDict([error |-> PyStr(<<"Invalid JSON response">>),
                        content |-> ContentOf(reply)])
         ELSE reply.json

\* field key of a JSON object is absent or null
Missing(v, key) == v.t # "dict" \/ key \notin DOMAIN v.d \/ v.d[key] = PyNone

\* C13 (as stated): for a successful response (status 200, a JSON object)
\* in which any of kernel_result, compiled, correctness, the two speedups
\* and error is absent or null, scoring raises no exception and returns a
\* result with the missing booleans false and the missing speedups 0.
C13_PartialDataDefaults ==
  ReturnedRewards =>
    \A i \in 1..Len(last.items) :
      LET item == last.items[i]
          body == item.reply.json
          kernel_result == IF Missing(body, "kernel_result") THEN PyNone
                           ELSE body.d.kernel_result
      IN item.request.sent /\ item.reply.kind = "response"
           /\ item.reply.status = 200 /\ body.t = "dict" =>
             /\ ~IsRaise(item.out)
             /\ Missing(kernel_result, "compiled") =>
                  item.out.d.compiled = PyBool(FALSE)
             /\ Missing(kernel_result, "correctness") =>
                  item.out.d.correctness = PyBool(FALSE)
             /\ Missing(body, "speedup_vs_compile") =>
                  item.out.d.speedup_vs_compile = PyNum(0)
             /\ Missing(body, "speedup_vs_eager") =>
                  item.out.d.speedup_vs_eager = PyNum(0)

\* C14: whenever a score call sends a request, both hashes handed to the
\* memoized call are in the content store, holding the reference code and
\* the extracted candidate code, and the request's ref_file and kernel_file
\* are exactly those two texts, under any interleaving of score calls and
\* step-end clears.
C14_RequestCarriesStoredContent ==
  IsScoreCall /\ last.request.sent =>
    LET key == LruKeyFor(last.response, last.ref_code)
        code == PyStr(extract_python_code(ensure_string(last.response).s))
    IN /\ key[1] \in DOMAIN content_cache
       /\ key[2] \in DOMAIN content_cache
       /\ content_cache[key[1]] = ensure_string(last.ref_code)
       /\ content_cache[key[2]] = code
       /\ last.request.ref_file = ensure_string(last.ref_code).s
       /\ last.request.kernel_file = code.s
       /\ last.request.ref_file # <<>>
       /\ last.request.kernel_file # <<>>

\* a request sent right after a step end, in a run where the content store
\* has been purged of an earlier request's reference
C14_Witness ==
  /\ IsScoreCall
  /\ last.request.sent
  /\ last.after_step_end
  /\ \E b \in benchmarked : Md5(b.ref_file) \notin DOMAIN content_cache

\* the code a response extracts to
CodeOf(response) == extract_python_code(ensure_string(response).s)

\* the other responses that extract to the code of the last call's response
\* and were scored against the same reference since the last clear
SameCodeScored ==
  {r \in Responses :
     /\ r # last.response
     /\ CodeOf(r) = CodeOf(last.response)
     /\ <<r, last.ref_code>> \in DOMAIN scored}

C16_RawResponseKey ==
  /\ \A k \in DOMAIN benchmark_cache :
       \E r \in Responses, f \in Refs :
         k = <<hash_content(r), hash_content(f)>>
  /\ IsScoreCall /\ ~IsRaise(last.out) =>
       <<hash_content(last.response), hash_content(last.ref_code)>>
         \in DOMAIN benchmark_cache

\* a step that is a score call
ScoreCallStep == calls' = calls + 1 /\ last'.op = "get_cached_score"

\* C17: when the hard-score gate of the cape_dev script selects the soft
\* path, the call sends no request, leaves the network memo unchanged and
\* returns compiled=false, correctness=false, both speedups 0, error unset
\* and is_hard_score=false; when it selects the hard path the result
\* returned has is_hard_score=true.
C17_SoftPathFrame ==
  [][ScoreCallStep /\ script = "cape_dev" =>
       /\ last'.path = "soft" =>
            /\ ~last'.request.sent
            /\ benchmarked' = benchmarked
            /\ lru' = lru
            /\ last'.out =
                 PyDict([compiled |-> PyBool(FALSE),
                         correctness |-> PyBool(FALSE),
                         speedup_vs_compile |-> PyNum(0),
                         speedup_vs_eager |-> PyNum(0),
                         error |-> PyNone,
                         is_hard_score |-> PyBool(FALSE)])
       /\ last'.path \in {"request", "network_memo"}
            /\ ~IsRaise(last'.out) =>
              last'.out.d.is_hard_score = PyBool(TRUE)]_vars

\* a soft-path call made while the network memo holds an entry
C17_Witness ==
  /\ IsScoreCall
  /\ script = "cape_dev"
  /\ last.path = "soft"
  /\ lru # <<>>
  /\ ~last.lru_had

\* the last call recomputes a score whose memo entry the step end before
\* it cleared, the cleared entry was measured by the service, and the
\* network memo still holds the underlying call
RecomputedAfterClear ==
  /\ IsScoreCall
  /\ last.pre_clear.had
  /\ HardScored(last.pre_clear.out)
  /\ last.lru_had

\* C18 (as stated): clearing the score memo and recomputing score(response,
\* ref) while the network memo still holds the underlying call yields a
\* result equal to the pre-clear result in every field.
C18_ClearIsIdempotent ==
  RecomputedAfterClear => last.out = last.pre_clear.out

\* C18 (amended): the recomputation sends no request; when it takes the
\* network path (always in the root script) its result equals the
\* pre-clear result in every field; when the cape_dev gate selects the
\* soft path it is the default result with is_hard_score false.
C18_ClearThenRecompute ==
  RecomputedAfterClear =>
    /\ ~last.request.sent
    /\ last.path \in {"network_memo", "soft"}
    /\ last.path = "network_memo" => last.out = last.pre_clear.out
    /\ last.path = "soft" =>
         /\ script = "cape_dev"
         /\ ~HardScored(last.out)
         /\ last.out # last.pre_clear.out

C18_Witness ==
  /\ RecomputedAfterClear
  /\ last.path = "network_memo"
  /\ last.out = last.pre_clear.out
  /\ last.out.d.error # PyNone
  /\ Len(lru) = 2

\* a step that is the end of a training step
StepEndStep == global_step' = global_step + 1 /\ last'.op = "on_step_end"

\* C19 (as stated): at each step end both the content store and the network
\* memo are fully cleared if the content store holds more entries than its
\* ceiling, and both are left unchanged otherwise.
C19_ConditionalFullPurge ==
  [][StepEndStep =>
       IF Cardinality(DOMAIN content_cache) > content_cache_max_size
         THEN content_cache' = EmptyMap /\ lru' = <<>>
         ELSE content_cache' = content_cache /\ lru' = lru]_vars

\* the entries of the memo other than key's, in order
LruWithout(l, key) == SelectSeq(l, LAMBDA e : e.key # key)

\* C20: the network memo never holds more than maxsize entries; a result
\* stored at capacity evicts exactly the least recently used entry; a hit
\* makes its key the most recently used; any other score call leaves the
\* memo alone; and a step end keeps every entry unless the cape_dev
\* callback clears the memo explicitly.
C20_LruDiscipline ==
  [][/\ Len(lru') <= maxsize
     /\ ScoreCallStep =>
          LET key == LruKeyFor(last'.response, last'.ref_code)
              n == Len(lru')
          IN CASE last'.path = "request" ->
                    /\ key \notin LruKeys(lru)
                    /\ n > 0
                    /\ lru'[n].key = key
                    /\ SubSeq(lru', 1, n - 1) =
                         IF Len(lru) = maxsize THEN Tail(lru) ELSE lru
               [] last'.path = "network_memo" ->
                    /\ key \in LruKeys(lru)
                    /\ n = Len(lru)
                    /\ lru'[n] = lru[LruIndex(lru, key)]
                    /\ SubSeq(lru', 1, n - 1) = LruWithout(lru, key)
               [] OTHER -> lru' = lru
     /\ StepEndStep =>
          \/ lru' = lru
          \/ /\ script = "cape_dev"
             /\ Cardinality(DOMAIN content_cache) > content_cache_max_size
             /\ lru' = <<>>]_vars

\* a result stored in a full memo after a step end: the least recently
\* used entry is gone, the others are kept
C20_Witness ==
  /\ IsScoreCall
  /\ last.path = "request"
  /\ global_step > 0
  /\ Len(lru) = maxsize
  /\ Cardinality(benchmarked) = maxsize + 1
  /\ \E b \in benchmarked :
       <<Md5(b.ref_file), Md5(b.kernel_file)>> \notin LruKeys(lru)

ReturnedJudged == last.op = "reward_llm_scoring" /\ ~last.raised

C22_GatherKeepsInputOrder ==
  /\ pending.op = "reward_llm_scoring" => last.op = "in_progress"
  /\ (ReturnedJudged /\ "order" \in DOMAIN last) =>
       /\ Len(last.rewards) = Len(last.completions)
       /\ {last.order[k] : k \in 1..Len(last.order)} =
            1..Len(last.completions)
       /\ \A i \in 1..Len(last.completions) :
            /\ last.items[i].response = last.completions[i][1].content
            /\ last.items[i].judge \in AllJudgeReplies
            /\ last.rewards[i] = last.items[i].reward
            /\ last.rewards[i] = PyNone <=>
                 last.items[i].judge.kind # "scores"

C22_Witness ==
  /\ ReturnedJudged /\ "order" \in DOMAIN last
  /\ last.order = <<2, 1>>
  /\ last.items[1].judge = JudgeFailure /\ last.rewards[1] = PyNone
  /\ last.items[2].judge = JudgeScores(9, 4) /\ last.rewards[2] = PyNum(4)

\* C28: every reward a shaper returns is abstain or bounded: 1.0 or -1.0
\* from reward_compilation and reward_correctness, a value in [-1.0, 10.0]
\* from reward_speedup, a value in [0, 1] from reward_llm_scoring
C28_RewardsBounded ==
  (last.op \in ShaperOps /\ ~last.raised) =>
    \A i \in 1..Len(last.rewards) :
      LET r == last.rewards[i]
      IN \/ r = PyNone
         \/ /\ r.t = "float"
            /\ CASE last.op \in {"reward_compilation", "reward_correctness"} ->
                      r.n \in {10, -10}
                 [] last.op = "reward_speedup" -> -10 <= r.n /\ r.n <= 100
                 [] last.op = "reward_llm_scoring" -> 0 <= r.n /\ r.n <= 10

IsHashCall == last.op = "hash_content"
\* the string a value stands for once unwrapped: the first element of a
\* sequence, recursively; a string itself; str() of any other value
RECURSIVE Unwrapped(_)
Unwrapped(v) ==
  CASE v.t = "str" -> v.s
    [] v.t = "list" /\ v.xs # <<>> -> Unwrapped(v.xs[1])
    [] v.t = "tuple" /\ v.tup # <<>> -> Unwrapped(v.tup[1])
    [] v.t \in {"list", "tuple"} -> <<>>
    [] OTHER -> py_str(v)

\* C24: hash_content returns a hash for every input; a sequence of any type
\* whose first element wraps the string S hashes as S, and a value that is
\* neither a string nor a sequence hashes as its string conversion
C24_HashNormalizes ==
  IsHashCall =>
    /\ "md5" \in DOMAIN last.out
    /\ (last.content.t \notin {"list", "tuple"}
          \/ (last.content.t = "list" /\ last.content.xs # <<>>)
          \/ (last.content.t = "tuple" /\ last.content.tup # <<>>)) =>
         last.out = Md5(Unwrapped(last.content))

IsExtractCall == last.op = "extract_python_code"
FencePositions(text) == {i \in 1..Len(text) : text[i] = Fence}
NthFence(text, n) ==
  CHOOSE i \in FencePositions(text) :
    Cardinality({k \in FencePositions(text) : k < i}) = n - 1
\* the words that name a language after an opening fence
AnyLangTags == LangTags \cup {"cuda"}
\* the contents of the first fenced block of a text with two fences or
\* more: what lies between the first fence and the next, without the
\* language tag written right after the opening fence, trimmed
FirstFenceContents(text) ==
  LET open == NthFence(text, 1)
      close == NthFence(text, 2)
      inner == SubSeq(text, open + 1, close - 1)
  IN Strip(IF inner # <<>> /\ Head(inner) \in AnyLangTags
             THEN Tail(inner) ELSE inner)

\* C25: for a text holding a fenced block, tagged with a language or not,
\* extract_python_code returns exactly the trimmed contents of the first
\* block, without the fences and without the language tag
C25_FirstBlockTrimmed ==
  (IsExtractCall /\ Cardinality(FencePositions(last.text)) >= 2) =>
    last.out = FirstFenceContents(last.text)

\* the lines of a text that open or close a fence: their first non-blank
\* token is a fence
FenceMarkerLines(lines) ==
  {k \in 1..Len(lines) :
     Strip(lines[k]) # <<>> /\ Head(Strip(lines[k])) = Fence}

\* C26: on a text without a complete fenced block extract_python_code
\* returns the lines that follow the fence-marker line through the end of
\* the input, and the text unchanged when there is no such line
C26_FallbackChain ==
  (IsExtractCall /\ Cardinality(FencePositions(last.text)) < 2) =>
    LET lines == SplitLines(last.text, <<>>)
        markers == FenceMarkerLines(lines)
    IN IF markers # {} /\ (\E k \in markers : k < Len(lines))
         THEN \E k \in markers :
                last.out = JoinLines(SubSeq(lines, k + 1, Len(lines)))
         ELSE last.out = last.text

C26_Witness ==
  /\ IsExtractCall
  /\ last.text =
       <<"see", "NL", Fence, "python", "NL", "code_A", "NL", "SP", "code_B">>
  /\ last.out = <<"code_A", "NL", "SP", "code_B">>

IsCachedCall == last.op = "call_benchmark_server_cached"
StoredOrEmpty(h) ==
  IF h \in DOMAIN last.content_before THEN last.content_before[h].s ELSE <<>>

\* C27: a memoized benchmark call given a hash that the content store does
\* not hold raises nothing: it sends the request with the empty string in
\* place of the missing content and leaves the content store as it was
C27_AbsentHashIsEmptyBody ==
  IsCachedCall =>
    /\ last.out.t # "raise"
    /\ content_cache = last.content_before
    /\ last.path = "request" =>
         /\ last.request.sent
         /\ last.request.ref_file = StoredOrEmpty(last.ref_pytorch_code_hash)
         /\ last.request.kernel_file = StoredOrEmpty(last.optimized_code_hash)

C27_Witness ==
  /\ IsCachedCall /\ last.path = "request"
  /\ last.ref_pytorch_code_hash \notin DOMAIN last.content_before
  /\ last.optimized_code_hash \in DOMAIN last.content_before
  /\ last.request.ref_file = <<>>
  /\ last.request.kernel_file = <<"code_A">>
  /\ content_cache = last.content_before

CachedCallStep ==
  calls' = calls + 1 /\ last'.op = "call_benchmark_server_cached"
\* what call_benchmark_server returns when the service fails
FailureResults == {call_benchmark_server(reply) : reply \in FailureReplies}
\* the score a script builds from a benchmark result
ScoreFrom(benchmark_result) ==
  IF script = "root" THEN RootResult(benchmark_result)
                     ELSE HardResult(benchmark_result)
HoldsFailure(key) ==
  key \in LruKeys(lru) /\ LruValue(lru, key) \in FailureResults

\* C29 as stated: once the network memo holds a failure result for a pair,
\* every later score call for the pair returns that error result and sends
\* no request
C29_FailureAnswersEveryScore ==
  [][ScoreCallStep =>
       LET key == LruKeyFor(last'.response, last'.ref_code)
       IN (HoldsFailure(key) =>
             /\ ~last'.request.sent
             /\ last'.out = ScoreFrom(LruValue(lru, key)))]_vars

\* C29: a failure result is stored in the network memo like a success;
\* while the entry is there, a memoized call for the pair returns it and a
\* score call for the pair that reaches the network memo returns the score
\* built from it, no call for the pair sends a request, and the entry stays
C29_FailureMemoized ==
  [][LET called == <<last'.ref_pytorch_code_hash, last'.optimized_code_hash>>
         scored_key == LruKeyFor(last'.response, last'.ref_code)
     IN /\ (CachedCallStep /\ last'.path = "request") =>
             (called \in LruKeys(lru') /\ LruValue(lru', called) = last'.out)
        /\ (CachedCallStep /\ HoldsFailure(called)) =>
             /\ ~last'.request.sent
             /\ last'.out = LruValue(lru, called)
             /\ called \in LruKeys(lru')
             /\ LruValue(lru', called) = LruValue(lru, called)
        /\ (ScoreCallStep /\ HoldsFailure(scored_key)) =>
             /\ ~last'.request.sent
             /\ last'.path \in {"score_memo", "network_memo", "soft"}
             /\ last'.path = "network_memo" =>
                  last'.out = ScoreFrom(LruValue(lru, scored_key))
             /\ scored_key \in LruKeys(lru')
             /\ LruValue(lru', scored_key) = LruValue(lru, scored_key)]_vars

C29_Witness ==
  /\ IsScoreCall /\ last.path = "network_memo" /\ ~last.request.sent
  /\ last.out.t = "dict" /\ last.out.d.error # PyNone
  /\ \E i \in 1..Len(lru) :
       /\ lru[i].key = LruKeyFor(last.response, last.ref_code)
       /\ lru[i].val \in FailureResults

\* C30: with hard_score_percentage = 1.0 every item scored on a score-memo
\* miss takes the network path; with hard_score_percentage = 0.0 no request
\* is ever sent and reward_compilation, reward_correctness and
\* reward_speedup abstain for every item
C30_GateEndpoints ==
  /\ hard_score_percentage = 0 => benchmarked = {}
  /\ ReturnedRewards =>
       \A i \in 1..Len(last.items) :
         LET item == last.items[i]
         IN /\ hard_score_percentage = 0 =>
                 /\ ~item.request.sent
                 /\ item.path \in {"soft", "score_memo", "arguments"}
                 /\ last.rewards[i] = PyNone
            /\ hard_score_percentage = 100 =>
                 /\ item.path \in
                      {"request", "network_memo", "score_memo", "arguments"}
                 /\ item.path = "request" <=> item.request.sent

C30_Witness ==
  /\ ReturnedRewards /\ last.op = "reward_speedup"
  /\ hard_score_percentage = 0
  /\ Len(last.items) = 2
  /\ last.items[1].path = "soft" /\ last.items[2].path = "soft"
  /\ last.rewards = <<PyNone, PyNone>>
  /\ benchmarked = {}

BothReturned == last.op = "get_cached_score_twice"
\* the two calls run one after the other from the state they started in
SequentialRuns ==
  UNION {{<<first, second>> :
            second \in get_cached_score(first.mem, last.response,
                                        last.ref_code)} :
         first \in get_cached_score(last.start, last.response,
                                    last.ref_code)}
LikeSequential ==
  /\ last.results[1] = last.results[2]
  /\ \E run \in SequentialRuns :
       /\ run[1].out = last.results[1]
       /\ run[2].out = last.results[2]
       /\ benchmark_cache = run[2].mem.benchmark_cache
       /\ lru = run[2].mem.lru

\* C23 as stated: two interleaved score calls for the same key against a
\* deterministic service return equal results and leave the score memo and
\* the network memo as a sequential execution leaves them
C23_InterleavingInvisible == BothReturned => LikeSequential

\* C23: that holds in the root script and in the cape_dev script with the
\* gate at 0.0 or 1.0; with the gate in between each call returns the soft
\* default or the measured result, and the score memo holds one of the two
\* returned results
C23_InterleavingUpToGate ==
  BothReturned =>
    /\ hard_score_percentage \in {0, 100} => LikeSequential
    /\ last.requests <= 1
    /\ \A t \in 1..2 :
         \E first \in get_cached_score(last.start, last.response,
                                       last.ref_code) :
           \/ last.results[t] = first.out
           \/ \E second \in get_cached_score(first.mem, last.response,
                                             last.ref_code) :
                last.results[t] = second.out
    /\ ~IsRaise(last.results[1]) =>
         LET cache_key == ScoreKeyFor(last.response, last.ref_code)
         IN /\ cache_key \in DOMAIN benchmark_cache
            /\ benchmark_cache[cache_key] \in
                 {last.results[1], last.results[2]}

C23_Witness ==
  /\ BothReturned /\ last.misses = 2 /\ last.requests = 1
  /\ hard_score_percentage = 100
  /\ last.results[1] = last.results[2]
  /\ ~IsRaise(last.results[1])
  /\ last.results[1].d.speedup_vs_eager = PyNum(25)
  /\ LikeSequential

\* C35: a score call answered by the score memo sends no request and leaves
\* the score memo, the content store and the network memo, recency order
\* included, as they were
C35_MemoHitFrame ==
  [][(ScoreCallStep /\ last'.path = "score_memo") =>
       /\ ~last'.request.sent
       /\ benchmarked' = benchmarked
       /\ benchmark_cache' = benchmark_cache
       /\ content_cache' = content_cache
       /\ lru' = lru]_vars

\* a hit for the pair whose network-memo entry is the least recently used
C35_Witness ==
  /\ IsScoreCall /\ last.path = "score_memo"
  /\ Len(lru) = 2
  /\ lru[1].key = LruKeyFor(last.response, last.ref_code)
  /\ DOMAIN content_cache # {}

\* C33: every hash in a key of the network memo is held by the content
\* store
C33_MemoKeysResolvable ==
  \A i \in 1..Len(lru) :
    /\ lru[i].key[1] \in DOMAIN content_cache
    /\ lru[i].key[2] \in DOMAIN content_cache

StoreSize(cc) == Cardinality(DOMAIN cc)
\* C32: a step end of the cape_dev callback leaves at most
\* content_cache_max_size entries in the content store, keeping a store of
\* at most that size and emptying a larger one; a score call adds at most
\* two entries, removes none, and adds none on a score-memo hit
C32_StoreCeiling ==
  [][script = "cape_dev" =>
       /\ StepEndStep =>
            /\ StoreSize(content_cache') <= content_cache_max_size
            /\ StoreSize(content_cache) <= content_cache_max_size =>
                 content_cache' = content_cache
            /\ StoreSize(content_cache) > content_cache_max_size =>
                 content_cache' = EmptyMap
       /\ ScoreCallStep =>
            /\ DOMAIN content_cache \subseteq DOMAIN content_cache'
            /\ StoreSize(content_cache') <= StoreSize(content_cache) + 2
            /\ last'.path = "score_memo" => content_cache' = content_cache]_vars

\* a store of exactly the ceiling size kept by a step end
C32_Witness ==
  /\ script = "cape_dev"
  /\ last.op = "on_step_end"
  /\ last.store_size = content_cache_max_size
  /\ StoreSize(content_cache) = content_cache_max_size

InBatch == pending.op = "batch" /\ last.op \in RewardOps /\ ~last.raised
\* the (reference, extracted code) pairs of the batch being scored
BatchPairs ==
  {<<hash_content(last.items[i].ref),
     hash_content(PyStr(extract_python_code(
                          ensure_string(last.items[i].response).s)))>> :
     i \in 1..Len(last.items)}

\* C34: in the root script reward_speedup leaves the score memo empty and
\* reward_compilation and reward_correctness keep every entry it held; and
\* the requests sent for a batch, whatever the order of the three shapers,
\* number the distinct (reference, extracted code) pairs the network memo
\* did not hold when the batch began
C34_RootBatchRequests ==
  (script = "root" /\ InBatch) =>
    /\ last.op = "reward_speedup" => benchmark_cache = EmptyMap
    /\ last.op # "reward_speedup" =>
         \A k \in DOMAIN last.memo_before :
           /\ k \in DOMAIN benchmark_cache
           /\ benchmark_cache[k] = last.memo_before[k]
    /\ pending.requests =
         Cardinality(BatchPairs \ LruKeys(pending.lru_start))

\* the third shaper has run on a two-item batch one of whose pairs the
\* network memo already held
C34_Witness ==
  /\ script = "root" /\ InBatch
  /\ pending.done = RewardOps
  /\ last.op = "reward_compilation"
  /\ Cardinality(BatchPairs) = 2
  /\ Len(pending.lru_start) = 1
  /\ pending.requests = 1
  /\ benchmark_cache # EmptyMap

\* C31: within a step the score memo answers every shaper with the result
\* first computed for a key, so for each item of a batch reward_compilation,
\* reward_correctness and reward_speedup all abstain or all give a number
C31_ShapersAgreeOnAbstain ==
  (script = "cape_dev" /\ pending.op = "batch") =>
    /\ InBatch =>
         \A i \in 1..Len(last.items) :
           ~IsRaise(last.items[i].out) =>
             LET cache_key == ScoreKeyFor(last.items[i].response,
                                          last.items[i].ref)
             IN /\ cache_key \in DOMAIN benchmark_cache
                /\ benchmark_cache[cache_key] = last.items[i].out
    /\ \A k1 \in DOMAIN pending.rewards, k2 \in DOMAIN pending.rewards :
         \A i \in 1..Len(pending.rewards[k1]) :
           pending.rewards[k1][i] = PyNone <=> pending.rewards[k2][i] = PyNone

\* the service answered 200 with JSON that is not an object
NonObjectReply(item) ==
  /\ item.request.sent
  /\ item.reply.kind = "response" /\ item.reply.status = 200
  /\ item.reply.json # NotJson /\ item.reply.json.t # "dict"
ItemLruKey(item) == LruKeyFor(item.response, item.ref)
ItemScoreKey(item) == ScoreKeyFor(item.response, item.ref)

\* C36: in the cape_dev script, when the service answers 200 with a body
\* that is not an object, the score call raises and stores nothing in the
\* score memo, the value stays in the network memo, a repeat that reaches
\* the network memo raises again without a request, and the shaper gives
\* None for those items and only for them
C36_NonObjectBody ==
  (script = "cape_dev" /\ ReturnedRewards) =>
    \A i \in 1..Len(last.items) :
      LET item == last.items[i]
      IN /\ NonObjectReply(item) =>
              /\ IsRaise(item.out)
              /\ item.reward = PyNone
              /\ ItemLruKey(item) \in LruKeys(lru)
              /\ LruValue(lru, ItemLruKey(item)) = item.reply.json
              /\ (\A j \in (i + 1)..Len(last.items) :
                    ItemScoreKey(last.items[j]) # ItemScoreKey(item)) =>
                   ItemScoreKey(item) \notin DOMAIN benchmark_cache
              /\ \A j \in (i + 1)..Len(last.items) :
                   (ItemLruKey(last.items[j]) = ItemLruKey(item)
                      /\ last.items[j].path # "soft") =>
                     /\ last.items[j].path = "network_memo"
                     /\ ~last.items[j].request.sent
                     /\ IsRaise(last.items[j].out)
                     /\ last.items[j].reward = PyNone
         /\ (~IsRaise(item.out) /\ HardScored(item.out)
               /\ last.op # "reward_speedup") => item.reward # PyNone

C36_Witness ==
  /\ script = "cape_dev" /\ ReturnedRewards
  /\ Len(last.items) = 2
  /\ NonObjectReply(last.items[1])
  /\ IsRaise(last.items[1].out)
  /\ last.items[2].path = "network_memo"
  /\ ~last.items[2].request.sent
  /\ IsRaise(last.items[2].out)
  /\ last.rewards = <<PyNone, PyNone>>
  /\ benchmark_cache = EmptyMap

ShaperStep == last'.op \in RewardOps /\ pending'.op = "batch"
\* the score-memo entries that a step leaves in place
KeptEntries == DOMAIN benchmark_cache \cap DOMAIN benchmark_cache'

\* C37: a result stored in the score memo is never modified: no step
\* changes the value of an entry it keeps, score calls and cape_dev shapers
\* remove no entry, a score-memo hit returns the stored value, and every
\* item a shaper scored without an exception was given the value the memo
\* holds for its key
C37_StoredResultsImmutable ==
  [][/\ \A k \in KeptEntries : benchmark_cache'[k] = benchmark_cache[k]
     /\ (ScoreCallStep \/ (ShaperStep /\ script = "cape_dev")) =>
          DOMAIN benchmark_cache \subseteq DOMAIN benchmark_cache'
     /\ (ScoreCallStep /\ last'.path = "score_memo") =>
          last'.out = benchmark_cache[ScoreKeyFor(last'.response,
                                                  last'.ref_code)]
     /\ (ShaperStep /\ ~last'.raised) =>
          \A i \in 1..Len(last'.items) :
            LET item == last'.items[i]
            IN /\ (~IsRaise(item.out) /\ script = "cape_dev") =>
                    ItemScoreKey(item) \in DOMAIN benchmark_cache'
               /\ (~IsRaise(item.out)
                     /\ ItemScoreKey(item) \in DOMAIN benchmark_cache') =>
                    benchmark_cache'[ItemScoreKey(item)] = item.out
               /\ item.path = "score_memo" =>
                    item.out \in {benchmark_cache[k] :
                                    k \in DOMAIN benchmark_cache}
                      \cup {last'.items[j].out : j \in 1..(i - 1)}]_vars

\* the third shaper of a batch reading a measured result from the memo
C37_Witness ==
  /\ script = "cape_dev" /\ InBatch
  /\ pending.done = RewardOps
  /\ last.items[1].path = "score_memo"
  /\ HardScored(last.items[1].out)
  /\ benchmark_cache[ItemScoreKey(last.items[1])] = last.items[1].out

IsPreprocessCall == last.op = "preprocess_sample"
DefinesClass(code, name) ==
  \E i \in 1..(Len(code) - 3) :
    SubSeq(code, i, i + 3) = <<"class", "SP", name, "(">>
Occurrences(s, t) == Cardinality({i \in 1..Len(s) : s[i] = t})

\* C38: preprocess_sample renames the entry-point class everywhere: on code
\* that defines "class <entry_point>(" with an entry point other than Model,
\* the result holds "class Model(" and holds the name nowhere, neither in a
\* constructor call nor in another reference; code whose entry point is
\* Model or is not defined as a class is returned unchanged
C38_RenamedEverywhere ==
  IsPreprocessCall =>
    LET name == last.entry_point_name
    IN IF DefinesClass(last.code, name) /\ name # "Model"
         THEN /\ Occurrences(last.out, name) = 0
              /\ DefinesClass(last.out, "Model")
         ELSE last.out = last.code

\* C39: the copy in test_standardize.py returns what the function of
\* prepare_dataset.py returns, on every code
C39_CopyAgrees ==
  /\ last.op = "standardize_get_init_inputs" =>
       last.out = test_standardize_get_init_inputs(last.code)
  /\ last.op = "test_standardize" =>
       last.out = standardize_get_init_inputs(last.code)

====
